---- MODULE Spec2Model ----
(***************************************************************************)
(* Model of astk/geom/surfaces.py: the edge addressing of Bezier and       *)
(* rational Bezier patches, their constructors, and the continuity         *)
(* enforcement methods enforce_g0 / enforce_g0g1 / enforce_g0g1g2 (and the *)
(* c0 / c0c1 / c0c1c2 wrappers).                                           *)
(*                                                                         *)
(* Numbers.  The code computes in numpy floats.  A number is modelled as   *)
(* an exact fraction <<n, d>> in lowest terms with d > 0; the pair <<0,0>> *)
(* stands for a non-finite float (inf or nan), which is what numpy yields  *)
(* for a float division by zero and which every later operation keeps     *)
(* non-finite.  Rounding is not modelled.                                  *)
(*                                                                         *)
(* Points.  A Point3D is modelled by one of its coordinates: every         *)
(* operation of the enforcement code on points is a scalar multiple or a   *)
(* sum of points, hence acts on each coordinate separately.                *)
(***************************************************************************)
EXTENDS Integers, Sequences, FiniteSets, TLC

VARIABLES patch, nurbs, last, nCalls

vars == <<patch, nurbs, last, nCalls>>

(***************************************************************************)
(* Bounds                                                                  *)
(***************************************************************************)
\* largest number of control points per direction of a constructed patch
MaxN == 3
\* largest number of enforcement calls in a behaviour of SpecSeq
MaxCalls == 2

(***************************************************************************)
(* Float arithmetic                                                        *)
(***************************************************************************)
Abs(x) == IF x < 0 THEN -x ELSE x

RECURSIVE Gcd(_, _)
Gcd(a, b) == IF b = 0 THEN a ELSE Gcd(b, a % b)

NaN == <<0, 0>>

IsFinite(x) == x[2] # 0

Frac(n, d) ==
    IF d = 0 THEN NaN
    ELSE LET g == Gcd(Abs(n), Abs(d))
             s == IF d < 0 THEN -1 ELSE 1
         IN  <<(s * n) \div g, (s * d) \div g>>

Num(n) == <<n, 1>>

\* the sum over the least common denominator
Add(x, y) ==
    IF IsFinite(x) /\ IsFinite(y)
    THEN LET g == Gcd(x[2], y[2])
         IN  Frac(x[1] * (y[2] \div g) + y[1] * (x[2] \div g), (x[2] \div g) * y[2])
    ELSE NaN

Neg(x) == IF IsFinite(x) THEN <<-x[1], x[2]>> ELSE NaN

Sub(x, y) == Add(x, Neg(y))

\* the product, common factors taken out before the multiplication
Mul(x, y) ==
    IF IsFinite(x) /\ IsFinite(y)
    THEN LET g == Gcd(Abs(x[1]), y[2])
             h == Gcd(Abs(y[1]), x[2])
         IN  Frac((x[1] \div g) * (y[1] \div h), (x[2] \div h) * (y[2] \div g))
    ELSE NaN

\* float / float: a zero divisor gives inf or nan, not an exception
Div(x, y) ==
    IF IsFinite(x) /\ IsFinite(y) /\ y[1] # 0
    THEN Mul(x, Frac(y[2], y[1])) ELSE NaN

\* x < 0 on floats; false for nan
IsNegative(x) == IsFinite(x) /\ x[1] < 0

(***************************************************************************)
(* SurfaceEdge, degrees and edge addressing                                *)
(***************************************************************************)
SurfaceEdge == {"North", "South", "East", "West"}

PatchIds == {1, 2}

NoPatch == [kind |-> "none"]

degree_u(s) == s.Nu - 1
degree_v(s) == s.Nv - 1

get_parallel_degree(s, surface_edge) ==
    IF surface_edge \in {"North", "South"} THEN degree_u(s) ELSE degree_v(s)

get_perpendicular_degree(s, surface_edge) ==
    IF surface_edge \in {"North", "South"} THEN degree_v(s) ELSE degree_u(s)

\* Python list/ndarray index k on a sequence of length len: the 0-based
\* position, or -1 for an IndexError.  Negative k counts from the end.
PyIndex(k, len) ==
    IF k >= 0 THEN (IF k < len THEN k ELSE -1)
    ELSE (IF -k <= len THEN len + k ELSE -1)

\* mutant: North and East count the continuity index from index 0 as well
SlotRawNoReverse(s, row_index, continuity_index, surface_edge) ==
    IF surface_edge \in {"North", "South"}
    THEN <<PyIndex(row_index, s.Nu), PyIndex(continuity_index, s.Nv)>>
    ELSE <<PyIndex(continuity_index, s.Nu), PyIndex(row_index, s.Nv)>>

\* the grid slot <<i, j>> that (row_index, continuity_index, surface_edge)
\* addresses; a component is -1 when the index raises IndexError
SlotRaw(s, row_index, continuity_index, surface_edge) ==
    CASE surface_edge = "North" ->
           <<PyIndex(row_index, s.Nu), PyIndex(-(continuity_index + 1), s.Nv)>>
      [] surface_edge = "South" ->
           <<PyIndex(row_index, s.Nu), PyIndex(continuity_index, s.Nv)>>
      [] surface_edge = "East" ->
           <<PyIndex(-(continuity_index + 1), s.Nu), PyIndex(row_index, s.Nv)>>
      [] surface_edge = "West" ->
           <<PyIndex(continuity_index, s.Nu), PyIndex(row_index, s.Nv)>>

Slot(s, row_index, continuity_index, surface_edge) ==
    SlotRaw(s, row_index, continuity_index, surface_edge)

InRange(s, row_index, continuity_index, surface_edge) ==
    LET ij == Slot(s, row_index, continuity_index, surface_edge)
    IN  ij[1] >= 0 /\ ij[2] >= 0

get_point(s, row_index, continuity_index, surface_edge) ==
    LET ij == Slot(s, row_index, continuity_index, surface_edge)
    IN  s.points[ij[1]][ij[2]]

get_weight(s, row_index, continuity_index, surface_edge) ==
    LET ij == Slot(s, row_index, continuity_index, surface_edge)
    IN  s.weights[ij[1]][ij[2]]

\* mutant: the point is stored in the slot one further from the edge as well
set_point_Deeper(s, point, row_index, continuity_index, surface_edge) ==
    LET ij == Slot(s, row_index, continuity_index, surface_edge)
        kl == Slot(s, row_index, continuity_index + 1, surface_edge)
    IN  IF kl[1] >= 0 /\ kl[2] >= 0
        THEN [[s EXCEPT !.points[ij[1]][ij[2]] = point]
                 EXCEPT !.points[kl[1]][kl[2]] = point]
        ELSE [s EXCEPT !.points[ij[1]][ij[2]] = point]

set_point(s, point, row_index, continuity_index, surface_edge) ==
    LET ij == Slot(s, row_index, continuity_index, surface_edge)
    IN  [s EXCEPT !.points[ij[1]][ij[2]] = point]

set_weight(s, weight, row_index, continuity_index, surface_edge) ==
    LET ij == Slot(s, row_index, continuity_index, surface_edge)
    IN  [s EXCEPT !.weights[ij[1]][ij[2]] = weight]

(***************************************************************************)
(* Continuity enforcement.  Every method returns the target as the call    *)
(* leaves it together with how the call ended: "ok" or the exception       *)
(* raised, the loop that raised ("pre", "G0", "G1", "G2") and the row.     *)
(* The tangent ratio f is [arr |-> FALSE, val |-> x] for a float and       *)
(* [arr |-> TRUE, vals |-> <<..>>] for an ndarray.                         *)
(***************************************************************************)
Result(s, outcome, phase, row) ==
    [s |-> s, outcome |-> outcome, phase |-> phase, row |-> row]

\* the element of a one-element set.  Only({body : v \in {e}}) is body with v
\* bound to the value of e: e is evaluated once, as a Python statement evaluates
\* its right-hand side once before the next statement runs
Only(S) == CHOOSE r \in S : TRUE

IsRational(s) == s.kind = "rational"

\* mutant: the weight of the row is not copied
G0RowPointOnly(s, other, surface_edge, other_surface_edge, row_index) ==
    set_point(s, get_point(other, row_index, 0, other_surface_edge),
              row_index, 0, surface_edge)

\* one pass of the loop body of enforce_g0
G0Row(s, other, surface_edge, other_surface_edge, row_index) ==
    LET s1 == set_point(s, get_point(other, row_index, 0, other_surface_edge),
                        row_index, 0, surface_edge)
    IN  IF IsRational(s)
        THEN set_weight(s1, get_weight(other, row_index, 0, other_surface_edge),
                        row_index, 0, surface_edge)
        ELSE s1

RECURSIVE G0Rows(_, _, _, _, _)
G0Rows(s, other, surface_edge, other_surface_edge, row_index) ==
    IF row_index > get_parallel_degree(s, surface_edge) THEN s
    ELSE Only({G0Rows(s1, other, surface_edge, other_surface_edge,
                                 row_index + 1)
             : s1 \in {G0Row(s, other, surface_edge, other_surface_edge, row_index)}})

enforce_g0(s, other, surface_edge, other_surface_edge) ==
    IF get_parallel_degree(s, surface_edge)
         # get_parallel_degree(other, other_surface_edge)
    THEN Result(s, "AssertionError", "pre", 0)
    ELSE Result(G0Rows(s, other, surface_edge, other_surface_edge, 0), "ok", "G0", 0)

f_row(f, row_index) == IF f.arr THEN f.vals[row_index + 1] ELSE f.val

\* n_ratio of enforce_g0g1: int / int
G1Ratio(s, other, surface_edge, other_surface_edge) ==
    Frac(get_perpendicular_degree(other, other_surface_edge),
         get_perpendicular_degree(s, surface_edge))

\* w_i1_b of RationalBezierSurface.enforce_g0g1
G1Weight(s, other, f, n_ratio, surface_edge, other_surface_edge, row_index) ==
    LET w_i0_b  == get_weight(s, row_index, 0, surface_edge)
        w_im_a  == get_weight(other, row_index, 0, other_surface_edge)
        w_im1_a == get_weight(other, row_index, 1, other_surface_edge)
    IN  Add(w_i0_b, Mul(Mul(f_row(f, row_index), n_ratio), Sub(w_im_a, w_im1_a)))

\* P_i1_b of RationalBezierSurface.enforce_g0g1, given the weight w_i1_b
G1RationalPoint(s, other, f, n_ratio, w_i1_b, surface_edge, other_surface_edge, row_index) ==
    LET w_i0_b  == get_weight(s, row_index, 0, surface_edge)
        w_im_a  == get_weight(other, row_index, 0, other_surface_edge)
        w_im1_a == get_weight(other, row_index, 1, other_surface_edge)
        P_i0_b  == get_point(s, row_index, 0, surface_edge)
        P_im_a  == get_point(other, row_index, 0, other_surface_edge)
        P_im1_a == get_point(other, row_index, 1, other_surface_edge)
    IN  Add(Mul(Div(w_i0_b, w_i1_b), P_i0_b),
            Mul(Div(Mul(f_row(f, row_index), n_ratio), w_i1_b),
                Sub(Mul(w_im_a, P_im_a), Mul(w_im1_a, P_im1_a))))

\* mutant: the difference of the source's rows is taken the other way round
G1BezierPointReversed(s, other, f, n_ratio, surface_edge, other_surface_edge, row_index) ==
    LET P_i0_b  == get_point(s, row_index, 0, surface_edge)
        P_im_a  == get_point(other, row_index, 0, other_surface_edge)
        P_im1_a == get_point(other, row_index, 1, other_surface_edge)
    IN  Add(P_i0_b, Mul(Mul(f_row(f, row_index), n_ratio), Sub(P_im1_a, P_im_a)))

\* P_i1_b of BezierSurface.enforce_g0g1
G1BezierPoint(s, other, f, n_ratio, surface_edge, other_surface_edge, row_index) ==
    LET P_i0_b  == get_point(s, row_index, 0, surface_edge)
        P_im_a  == get_point(other, row_index, 0, other_surface_edge)
        P_im1_a == get_point(other, row_index, 1, other_surface_edge)
    IN  Add(P_i0_b, Mul(Mul(f_row(f, row_index), n_ratio), Sub(P_im_a, P_im1_a)))

\* mutant: the weight is stored before it is checked
G1RowWriteFirst(s, other, f, n_ratio, surface_edge, other_surface_edge, row_index) ==
    IF ~InRange(other, row_index, 1, other_surface_edge)
       \/ ~InRange(s, row_index, 1, surface_edge)
    THEN Result(s, "IndexError", "G1", row_index)
    ELSE IF IsRational(s)
    THEN Only({Only({IF IsNegative(w_i1_b)
                       THEN Result(s1, "NegativeWeightError", "G1", row_index)
                       ELSE Result(set_point(s1,
                                      G1RationalPoint(s1, other, f, n_ratio, w_i1_b,
                                          surface_edge, other_surface_edge, row_index),
                                      row_index, 1, surface_edge),
                                   "ok", "G1", row_index)
                    : s1 \in {set_weight(s, w_i1_b, row_index, 1, surface_edge)}})
             : w_i1_b \in {G1Weight(s, other, f, n_ratio, surface_edge,
                 other_surface_edge, row_index)}})
    ELSE Result(set_point(s,
                    G1BezierPoint(s, other, f, n_ratio,
                        surface_edge, other_surface_edge, row_index),
                    row_index, 1, surface_edge),
                "ok", "G1", row_index)

\* mutant: the computed weight is stored without the check for a negative value
G1RowUnchecked(s, other, f, n_ratio, surface_edge, other_surface_edge, row_index) ==
    IF ~InRange(other, row_index, 1, other_surface_edge)
       \/ ~InRange(s, row_index, 1, surface_edge)
    THEN Result(s, "IndexError", "G1", row_index)
    ELSE IF IsRational(s)
    THEN Only({Only({Result(set_point(s1,
                                 G1RationalPoint(s1, other, f, n_ratio, w_i1_b,
                                     surface_edge, other_surface_edge, row_index),
                                 row_index, 1, surface_edge),
                              "ok", "G1", row_index)
                    : s1 \in {set_weight(s, w_i1_b, row_index, 1, surface_edge)}})
             : w_i1_b \in {G1Weight(s, other, f, n_ratio, surface_edge,
                 other_surface_edge, row_index)}})
    ELSE Result(set_point(s,
                    G1BezierPoint(s, other, f, n_ratio,
                        surface_edge, other_surface_edge, row_index),
                    row_index, 1, surface_edge),
                "ok", "G1", row_index)

\* mutant: the point is computed with the weight the slot held before the row
G1RowStaleWeight(s, other, f, n_ratio, surface_edge, other_surface_edge, row_index) ==
    IF ~InRange(other, row_index, 1, other_surface_edge)
       \/ ~InRange(s, row_index, 1, surface_edge)
    THEN Result(s, "IndexError", "G1", row_index)
    ELSE IF IsRational(s)
    THEN Only({IF IsNegative(w_i1_b)
                THEN Result(s, "NegativeWeightError", "G1", row_index)
                ELSE Only({Result(set_point(s1,
                                      G1RationalPoint(s1, other, f, n_ratio,
                                          get_weight(s, row_index, 1, surface_edge),
                                          surface_edge, other_surface_edge, row_index),
                                      row_index, 1, surface_edge),
                                   "ok", "G1", row_index)
                         : s1 \in {set_weight(s, w_i1_b, row_index, 1, surface_edge)}})
             : w_i1_b \in {G1Weight(s, other, f, n_ratio, surface_edge,
                 other_surface_edge, row_index)}})
    ELSE Result(set_point(s,
                    G1BezierPoint(s, other, f, n_ratio,
                        surface_edge, other_surface_edge, row_index),
                    row_index, 1, surface_edge),
                "ok", "G1", row_index)

\* one pass of the loop body of enforce_g0g1 (either class)
G1Row(s, other, f, n_ratio, surface_edge, other_surface_edge, row_index) ==
    IF ~InRange(other, row_index, 1, other_surface_edge)
    THEN Result(s, "IndexError", "G1", row_index)
    ELSE IF IsRational(s)
    THEN Only({IF IsNegative(w_i1_b)
                THEN Result(s, "NegativeWeightError", "G1", row_index)
                ELSE IF ~InRange(s, row_index, 1, surface_edge)
                THEN Result(s, "IndexError", "G1", row_index)
                ELSE Only({Result(set_point(s1,
                                      G1RationalPoint(s1, other, f, n_ratio, w_i1_b,
                                          surface_edge, other_surface_edge, row_index),
                                      row_index, 1, surface_edge),
                                   "ok", "G1", row_index)
                         : s1 \in {set_weight(s, w_i1_b, row_index, 1, surface_edge)}})
             : w_i1_b \in {G1Weight(s, other, f, n_ratio, surface_edge,
                 other_surface_edge, row_index)}})
    ELSE IF ~InRange(s, row_index, 1, surface_edge)
         THEN Result(s, "IndexError", "G1", row_index)
         ELSE Result(set_point(s,
                         G1BezierPoint(s, other, f, n_ratio,
                             surface_edge, other_surface_edge, row_index),
                         row_index, 1, surface_edge),
                     "ok", "G1", row_index)

\* the rows of the G1 loop from row_index on
RECURSIVE G1Rows(_, _, _, _, _, _, _)
G1Rows(s, other, f, n_ratio, surface_edge, other_surface_edge, row_index) ==
    IF row_index > get_parallel_degree(s, surface_edge)
    THEN Result(s, "ok", "G1", 0)
    ELSE Only({IF r.outcome # "ok" THEN r
                ELSE G1Rows(r.s, other, f, n_ratio,
                            surface_edge, other_surface_edge, row_index + 1)
             : r \in {G1Row(s, other, f, n_ratio, surface_edge, other_surface_edge, row_index)}})

\* enforce_g0g1 after its call of enforce_g0: n_ratio and the loop over the rows
G1Loop(s, other, f, surface_edge, other_surface_edge) ==
    IF get_perpendicular_degree(s, surface_edge) = 0
    THEN Result(s, "ZeroDivisionError", "G1", 0)
    ELSE Only({G1Rows(s, other, f, n_ratio, surface_edge, other_surface_edge, 0)
             : n_ratio \in {G1Ratio(s, other, surface_edge, other_surface_edge)}})

FLengthWrong(s, f, surface_edge) ==
    IsRational(s) /\ f.arr /\ Len(f.vals) # get_parallel_degree(s, surface_edge) + 1

\* mutant: all or nothing, the target is restored when a weight is negative
enforce_g0g1_Rollback(s, other, f, surface_edge, other_surface_edge) ==
    IF FLengthWrong(s, f, surface_edge)
    THEN Result(s, "AssertionError", "pre", 0)
    ELSE Only({IF g0.outcome # "ok" THEN g0
                ELSE Only({IF r.outcome = "NegativeWeightError"
                            THEN Result(s, r.outcome, r.phase, r.row) ELSE r
                         : r \in {G1Loop(g0.s, other, f, surface_edge, other_surface_edge)}})
             : g0 \in {enforce_g0(s, other, surface_edge, other_surface_edge)}})

\* mutant: the length of f is asserted after the G0 copy
enforce_g0g1_LateAssert(s, other, f, surface_edge, other_surface_edge) ==
    Only({IF g0.outcome # "ok" THEN g0
           ELSE IF FLengthWrong(s, f, surface_edge)
           THEN Result(g0.s, "AssertionError", "pre", 0)
           ELSE G1Loop(g0.s, other, f, surface_edge, other_surface_edge)
        : g0 \in {enforce_g0(s, other, surface_edge, other_surface_edge)}})

enforce_g0g1(s, other, f, surface_edge, other_surface_edge) ==
    IF FLengthWrong(s, f, surface_edge)
    THEN Result(s, "AssertionError", "pre", 0)
    ELSE Only({IF g0.outcome # "ok" THEN g0
                ELSE G1Loop(g0.s, other, f, surface_edge, other_surface_edge)
             : g0 \in {enforce_g0(s, other, surface_edge, other_surface_edge)}})

\* n_ratio of enforce_g0g1g2: (p_a^2 - p_a) / (p_b^2 - p_b), int / int
G2Denominator(s, surface_edge) ==
    get_perpendicular_degree(s, surface_edge) * get_perpendicular_degree(s, surface_edge)
      - get_perpendicular_degree(s, surface_edge)

G2Ratio(s, other, surface_edge, other_surface_edge) ==
    LET p_perp_a == get_perpendicular_degree(other, other_surface_edge)
    IN  Frac(p_perp_a * p_perp_a - p_perp_a, G2Denominator(s, surface_edge))

\* f_row**2 * n_ratio
G2Scale(f, n_ratio, row_index) ==
    Mul(Mul(f_row(f, row_index), f_row(f, row_index)), n_ratio)

\* w_i2_b of RationalBezierSurface.enforce_g0g1g2
G2Weight(s, other, f, n_ratio, surface_edge, other_surface_edge, row_index) ==
    LET w_i0_b  == get_weight(s, row_index, 0, surface_edge)
        w_i1_b  == get_weight(s, row_index, 1, surface_edge)
        w_im_a  == get_weight(other, row_index, 0, other_surface_edge)
        w_im1_a == get_weight(other, row_index, 1, other_surface_edge)
        w_im2_a == get_weight(other, row_index, 2, other_surface_edge)
    IN  Add(Sub(Mul(Num(2), w_i1_b), w_i0_b),
            Mul(G2Scale(f, n_ratio, row_index),
                Add(Sub(w_im_a, Mul(Num(2), w_im1_a)), w_im2_a)))

\* P_i2_b of RationalBezierSurface.enforce_g0g1g2, given the weight w_i2_b
G2RationalPoint(s, other, f, n_ratio, w_i2_b, surface_edge, other_surface_edge, row_index) ==
    LET w_i0_b  == get_weight(s, row_index, 0, surface_edge)
        w_i1_b  == get_weight(s, row_index, 1, surface_edge)
        w_im_a  == get_weight(other, row_index, 0, other_surface_edge)
        w_im1_a == get_weight(other, row_index, 1, other_surface_edge)
        w_im2_a == get_weight(other, row_index, 2, other_surface_edge)
        P_i0_b  == get_point(s, row_index, 0, surface_edge)
        P_i1_b  == get_point(s, row_index, 1, surface_edge)
        P_im_a  == get_point(other, row_index, 0, other_surface_edge)
        P_im1_a == get_point(other, row_index, 1, other_surface_edge)
        P_im2_a == get_point(other, row_index, 2, other_surface_edge)
    IN  Add(Sub(Mul(Div(Mul(Num(2), w_i1_b), w_i2_b), P_i1_b),
                Mul(Div(w_i0_b, w_i2_b), P_i0_b)),
            Mul(Mul(G2Scale(f, n_ratio, row_index), Div(Num(1), w_i2_b)),
                Add(Sub(Mul(w_im_a, P_im_a), Mul(Mul(Num(2), w_im1_a), P_im1_a)),
                    Mul(w_im2_a, P_im2_a))))

\* P_i2_b of BezierSurface.enforce_g0g1g2
G2BezierPoint(s, other, f, n_ratio, surface_edge, other_surface_edge, row_index) ==
    LET P_i0_b  == get_point(s, row_index, 0, surface_edge)
        P_i1_b  == get_point(s, row_index, 1, surface_edge)
        P_im_a  == get_point(other, row_index, 0, other_surface_edge)
        P_im1_a == get_point(other, row_index, 1, other_surface_edge)
        P_im2_a == get_point(other, row_index, 2, other_surface_edge)
    IN  Add(Sub(Mul(Num(2), P_i1_b), P_i0_b),
            Mul(G2Scale(f, n_ratio, row_index),
                Add(Sub(P_im_a, Mul(Num(2), P_im1_a)), P_im2_a)))

\* one pass of the loop body of enforce_g0g1g2 (either class)
G2Row(s, other, f, n_ratio, surface_edge, other_surface_edge, row_index) ==
    IF ~InRange(other, row_index, 2, other_surface_edge)
    THEN Result(s, "IndexError", "G2", row_index)
    ELSE IF IsRational(s)
    THEN Only({IF IsNegative(w_i2_b)
                THEN Result(s, "NegativeWeightError", "G2", row_index)
                ELSE Only({Result(set_point(s1,
                                      G2RationalPoint(s1, other, f, n_ratio, w_i2_b,
                                          surface_edge, other_surface_edge, row_index),
                                      row_index, 2, surface_edge),
                                   "ok", "G2", row_index)
                         : s1 \in {set_weight(s, w_i2_b, row_index, 2, surface_edge)}})
             : w_i2_b \in {G2Weight(s, other, f, n_ratio, surface_edge,
                 other_surface_edge, row_index)}})
    ELSE Result(set_point(s,
                    G2BezierPoint(s, other, f, n_ratio,
                        surface_edge, other_surface_edge, row_index),
                    row_index, 2, surface_edge),
                "ok", "G2", row_index)

\* the rows of the G2 loop from row_index on
RECURSIVE G2Rows(_, _, _, _, _, _, _)
G2Rows(s, other, f, n_ratio, surface_edge, other_surface_edge, row_index) ==
    IF row_index > get_parallel_degree(s, surface_edge)
    THEN Result(s, "ok", "G2", 0)
    ELSE Only({IF r.outcome # "ok" THEN r
                ELSE G2Rows(r.s, other, f, n_ratio,
                            surface_edge, other_surface_edge, row_index + 1)
             : r \in {G2Row(s, other, f, n_ratio, surface_edge, other_surface_edge, row_index)}})

\* enforce_g0g1g2 after its call of enforce_g0g1: n_ratio and the loop over the rows
G2Loop(s, other, f, surface_edge, other_surface_edge) ==
    IF G2Denominator(s, surface_edge) = 0
    THEN Result(s, "ZeroDivisionError", "G2", 0)
    ELSE Only({G2Rows(s, other, f, n_ratio, surface_edge, other_surface_edge, 0)
             : n_ratio \in {G2Ratio(s, other, surface_edge, other_surface_edge)}})

enforce_g0g1g2(s, other, f, surface_edge, other_surface_edge) ==
    Only({IF g1.outcome # "ok" THEN g1
           ELSE G2Loop(g1.s, other, f, surface_edge, other_surface_edge)
        : g1 \in {enforce_g0g1(s, other, f, surface_edge, other_surface_edge)}})

One == [arr |-> FALSE, val |-> Num(1), vals |-> <<>>]

enforce_c0(s, other, surface_edge, other_surface_edge) ==
    enforce_g0(s, other, surface_edge, other_surface_edge)

\* mutant: the tangent ratio passed on is 2.0
enforce_c0c1_Doubled(s, other, surface_edge, other_surface_edge) ==
    enforce_g0g1(s, other, [arr |-> FALSE, val |-> Num(2), vals |-> <<>>],
                 surface_edge, other_surface_edge)

enforce_c0c1(s, other, surface_edge, other_surface_edge) ==
    enforce_g0g1(s, other, One, surface_edge, other_surface_edge)

enforce_c0c1c2(s, other, surface_edge, other_surface_edge) ==
    enforce_g0g1g2(s, other, One, surface_edge, other_surface_edge)

(***************************************************************************)
(* Constructors                                                            *)
(***************************************************************************)
\* the control nets and weight grids handed to the constructors
SurfaceCorner == {"Northeast", "Northwest", "Southwest", "Southeast"}

\* RationalBezierSurface.get_corner_index for one of the four corners
get_corner_index(s, surface_corner) ==
    CASE surface_corner = "Northeast" -> <<degree_u(s), degree_v(s)>>
      [] surface_corner = "Northwest" -> <<0, degree_v(s)>>
      [] surface_corner = "Southwest" -> <<0, 0>>
      [] surface_corner = "Southeast" -> <<degree_u(s), 1>>

RECURSIVE Binomial(_, _)
Binomial(n, k) == IF k = 0 THEN 1 ELSE (Binomial(n, k - 1) * (n - k + 1)) \div k

RECURSIVE Pow(_, _)
Pow(x, k) == IF k = 0 THEN Num(1) ELSE Mul(x, Pow(x, k - 1))

\* the Bernstein basis B(n, i, t) = C(n, i) t^i (1 - t)^(n - i), zero outside
\* i in 0 .. n
bernstein_poly(n, i, t) ==
    IF i < 0 \/ i > n THEN Num(0)
    ELSE Mul(Num(Binomial(n, i)), Mul(Pow(t, i), Pow(Sub(Num(1), t), n - i)))

\* the sum of the first n entries of a sequence of numbers
RECURSIVE SumFirst(_, _)
SumFirst(terms, n) == IF n = 0 THEN Num(0) ELSE Add(SumFirst(terms, n - 1), terms[n])

\* the grid indices in the order of the double loop "for i ... for j ..."
GridIndex(s, k) == <<(k - 1) \div s.Nv, (k - 1) % s.Nv>>

\* mutant: the two parameters are exchanged
BuBvExchanged(s, k, u, v) ==
    Mul(bernstein_poly(degree_u(s), GridIndex(s, k)[1], v),
        bernstein_poly(degree_v(s), GridIndex(s, k)[2], u))

\* Bu * Bv of the k-th pass of the loop
BuBv(s, k, u, v) ==
    Mul(bernstein_poly(degree_u(s), GridIndex(s, k)[1], u),
        bernstein_poly(degree_v(s), GridIndex(s, k)[2], v))

\* BezierSurface.evaluate_ndarray
BezierEvaluate(s, u, v) ==
    Only({SumFirst(terms, s.Nu * s.Nv)
          : terms \in {[k \in 1 .. s.Nu * s.Nv |->
                          Mul(s.points[GridIndex(s, k)[1]][GridIndex(s, k)[2]],
                              BuBv(s, k, u, v))]}})

\* wBuBv of the k-th pass of the loop of RationalBezierSurface.evaluate_ndarray
wBuBv(s, k, u, v) ==
    Mul(BuBv(s, k, u, v), s.weights[GridIndex(s, k)[1]][GridIndex(s, k)[2]])

\* point of RationalBezierSurface.evaluate_ndarray when its loops end
RationalNumerator(s, u, v) ==
    SumFirst([k \in 1 .. s.Nu * s.Nv |->
                Mul(s.points[GridIndex(s, k)[1]][GridIndex(s, k)[2]], wBuBv(s, k, u, v))],
             s.Nu * s.Nv)

\* mutant: the sum is started again in every row of the grid
RationalDenominatorPerRow(s, u, v) ==
    SumFirst([k \in 1 .. s.Nv |-> wBuBv(s, (s.Nu - 1) * s.Nv + k, u, v)], s.Nv)

\* wBuBv_sum of RationalBezierSurface.evaluate_ndarray when its loops end
RationalDenominator(s, u, v) ==
    SumFirst([k \in 1 .. s.Nu * s.Nv |-> wBuBv(s, k, u, v)], s.Nu * s.Nv)

\* RationalBezierSurface.evaluate_ndarray: point / wBuBv_sum
RationalEvaluate(s, u, v) ==
    Div(RationalNumerator(s, u, v), RationalDenominator(s, u, v))

\* np.linspace(0.0, 1.0, n_points)
Linspace(n_points) ==
    [k \in 1 .. n_points |-> IF n_points = 1 THEN Num(0) ELSE Frac(k - 1, n_points - 1)]

\* BezierSurface.get_edge for one of the four edges
get_edge(s, edge, n_points) ==
    CASE edge = "North" ->
           [k \in 1 .. n_points |-> BezierEvaluate(s, Linspace(n_points)[k], Num(1))]
      [] edge = "South" ->
           [k \in 1 .. n_points |-> BezierEvaluate(s, Linspace(n_points)[k], Num(0))]
      [] edge = "East" ->
           [k \in 1 .. n_points |-> BezierEvaluate(s, Num(1), Linspace(n_points)[k])]
      [] edge = "West" ->
           [k \in 1 .. n_points |-> BezierEvaluate(s, Num(0), Linspace(n_points)[k])]

\* [bernstein_poly(n, i, t) for i in range(n + 1)]
BernsteinRow(n, t) == [i \in 0 .. n |-> bernstein_poly(n, i, t)]

\* bernstein_poly(n - 1, i - 1, t) - bernstein_poly(n - 1, i, t) for each i
BernsteinDiff(n, t) ==
    [i \in 0 .. n |-> Sub(bernstein_poly(n - 1, i - 1, t), bernstein_poly(n - 1, i, t))]

\* bernstein_poly(n - 2, i - 2, t) - 2 bernstein_poly(n - 2, i - 1, t)
\* + bernstein_poly(n - 2, i, t) for each i
BernsteinDiff2(n, t) ==
    [i \in 0 .. n |->
        Add(Sub(bernstein_poly(n - 2, i - 2, t),
                Mul(Num(2), bernstein_poly(n - 2, i - 1, t))),
            bernstein_poly(n - 2, i, t))]

\* a row of coefficients times a number
Scaled(c, row) == [i \in DOMAIN row |-> Mul(c, row[i])]

\* dbudu of dSdu (dbvdv of dSdv) for each i
dBdt(n, t) == Scaled(Num(n), BernsteinDiff(n, t))

\* d2budu2 = term1 - term2 of d2Sdu2 (d2bvdv2 of d2Sdv2) for each i
d2Bdt2(n, t) ==
    [i \in 0 .. n |->
        Sub(Mul(Num(n * (n - 1)),
                Sub(bernstein_poly(n - 2, i - 2, t), bernstein_poly(n - 2, i - 1, t))),
            Mul(Num(n * (n - 1)),
                Sub(bernstein_poly(n - 2, i - 1, t), bernstein_poly(n - 2, i, t))))]

\* the sum over the grid of cu[i] * cv[j] * grid[i][j]
GridSum(s, cu, cv, grid) ==
    SumFirst([k \in 1 .. s.Nu * s.Nv |->
                Mul(Mul(cu[GridIndex(s, k)[1]], cv[GridIndex(s, k)[2]]),
                    grid[GridIndex(s, k)[1]][GridIndex(s, k)[2]])],
             s.Nu * s.Nv)

\* BezierSurface.dSdu, dSdv, d2Sdu2, d2Sdv2
dSdu(s, u, v) ==
    GridSum(s, dBdt(degree_u(s), u), BernsteinRow(degree_v(s), v), s.points)

dSdv(s, u, v) ==
    GridSum(s, BernsteinRow(degree_u(s), u), dBdt(degree_v(s), v), s.points)

d2Sdu2(s, u, v) ==
    GridSum(s, d2Bdt2(degree_u(s), u), BernsteinRow(degree_v(s), v), s.points)

d2Sdv2(s, u, v) ==
    GridSum(s, BernsteinRow(degree_u(s), u), d2Bdt2(degree_v(s), v), s.points)

\* the control points times their weights
WeightedPoints(s) ==
    [i \in DOMAIN s.points |->
       [j \in DOMAIN s.points[i] |-> Mul(s.weights[i][j], s.points[i][j])]]

\* weight_sum, point_sum, weight_deriv_sum, point_deriv_sum, weight_deriv2_sum
\* and point_deriv2_sum of the compute_..._derivative_... methods, from the
\* rows of coefficients in u and v of the plain, the first-difference and the
\* second-difference sums
DerivativeSums(s, bu, bv, du, dv, d2u, d2v) ==
    [weight_sum |-> GridSum(s, bu, bv, s.weights),
     point_sum |-> GridSum(s, bu, bv, WeightedPoints(s)),
     weight_deriv_sum |-> GridSum(s, du, dv, s.weights),
     point_deriv_sum |-> GridSum(s, du, dv, WeightedPoints(s)),
     weight_deriv2_sum |-> GridSum(s, d2u, d2v, s.weights),
     point_deriv2_sum |-> GridSum(s, d2u, d2v, WeightedPoints(s))]

\* (A - B) / W of compute_first_derivative_u / _v, n the degree in the
\* direction of the derivative
FirstQuotient(q, n) ==
    Div(Sub(Mul(Num(n), Mul(q.weight_sum, q.point_deriv_sum)),
            Mul(Num(n), Mul(q.point_sum, q.weight_deriv_sum))),
        Mul(q.weight_sum, q.weight_sum))

\* (W * (dA - dB) - dW * (A - B)) / W**2 of compute_second_derivative_u / _v
SecondQuotient(q, n) ==
    Only({Div(Sub(Mul(t.W, Sub(t.dA, t.dB)), Mul(t.dW, Sub(t.A, t.B))), Mul(t.W, t.W))
          : t \in {[A |-> Mul(Num(n), Mul(q.weight_sum, q.point_deriv_sum)),
                    B |-> Mul(Num(n), Mul(q.point_sum, q.weight_deriv_sum)),
                    W |-> Mul(q.weight_sum, q.weight_sum),
                    dA |-> Add(Mul(Num(n * n), Mul(q.weight_deriv_sum, q.point_deriv_sum)),
                               Mul(q.weight_sum, q.point_deriv2_sum)),
                    dB |-> Add(Mul(Num(n * n), Mul(q.point_deriv_sum, q.weight_deriv_sum)),
                               Mul(q.point_sum, q.weight_deriv2_sum)),
                    dW |-> Mul(Num(2 * n), Mul(q.weight_sum, q.weight_deriv_sum))]}})

\* the sums of the derivatives in u and of the derivatives in v
SumsU(s, u, v) ==
    DerivativeSums(s, BernsteinRow(degree_u(s), u), BernsteinRow(degree_v(s), v),
                   BernsteinDiff(degree_u(s), u), BernsteinRow(degree_v(s), v),
                   BernsteinDiff2(degree_u(s), u), BernsteinRow(degree_v(s), v))

SumsV(s, u, v) ==
    DerivativeSums(s, BernsteinRow(degree_u(s), u), BernsteinRow(degree_v(s), v),
                   BernsteinRow(degree_u(s), u), BernsteinDiff(degree_v(s), v),
                   BernsteinRow(degree_u(s), u), BernsteinDiff2(degree_v(s), v))

\* RationalBezierSurface.compute_first_derivative_u, ..._v,
\* compute_second_derivative_u, ..._v
compute_first_derivative_u(s, u, v) ==
    Only({FirstQuotient(q, degree_u(s)) : q \in {SumsU(s, u, v)}})

compute_first_derivative_v(s, u, v) ==
    Only({FirstQuotient(q, degree_v(s)) : q \in {SumsV(s, u, v)}})

compute_second_derivative_u(s, u, v) ==
    Only({SecondQuotient(q, degree_u(s)) : q \in {SumsU(s, u, v)}})

compute_second_derivative_v(s, u, v) ==
    Only({SecondQuotient(q, degree_v(s)) : q \in {SumsV(s, u, v)}})

\* BezierSurface.get_first_derivs_along_edge and get_second_derivs_along_edge
\* with perp=True, for one of the four edges
get_first_derivs_along_edge(s, edge, n_points) ==
    CASE edge = "North" -> [k \in 1 .. n_points |-> dSdv(s, Linspace(n_points)[k], Num(1))]
      [] edge = "South" -> [k \in 1 .. n_points |-> dSdv(s, Linspace(n_points)[k], Num(0))]
      [] edge = "East" -> [k \in 1 .. n_points |-> dSdu(s, Num(1), Linspace(n_points)[k])]
      [] edge = "West" -> [k \in 1 .. n_points |-> dSdu(s, Num(0), Linspace(n_points)[k])]

get_second_derivs_along_edge(s, edge, n_points) ==
    CASE edge = "North" -> [k \in 1 .. n_points |-> d2Sdv2(s, Linspace(n_points)[k], Num(1))]
      [] edge = "South" -> [k \in 1 .. n_points |-> d2Sdv2(s, Linspace(n_points)[k], Num(0))]
      [] edge = "East" -> [k \in 1 .. n_points |-> d2Sdu2(s, Num(1), Linspace(n_points)[k])]
      [] edge = "West" -> [k \in 1 .. n_points |-> d2Sdu2(s, Num(0), Linspace(n_points)[k])]

\* np.nan_to_num(x / np.linalg.norm(x)) of a vector of one coordinate
Direction(x) == IF x[1] > 0 THEN 1 ELSE IF x[1] < 0 THEN -1 ELSE 0

\* the second loop of verify_g1 / verify_g2 from the k-th ratio on: a ratio
\* that is inf or 0.0 is passed over, the first other ratio becomes current_f
\* and every later one has to be close to it; 0 / 0 is nan, which is close to
\* nothing.  current_f is <<>> for None
RECURSIVE Proportional(_, _, _, _)
Proportional(self_derivs, other_derivs, k, current_f) ==
    IF k > Len(self_derivs) THEN TRUE
    ELSE IF self_derivs[k] = Num(0) /\ other_derivs[k] # Num(0)
    THEN Proportional(self_derivs, other_derivs, k + 1, current_f)
    ELSE IF other_derivs[k] = Num(0) /\ self_derivs[k] # Num(0)
    THEN Proportional(self_derivs, other_derivs, k + 1, current_f)
    ELSE IF current_f = <<>>
    THEN Proportional(self_derivs, other_derivs, k + 1,
                      Div(self_derivs[k], other_derivs[k]))
    ELSE /\ IsFinite(current_f)
         /\ Div(self_derivs[k], other_derivs[k]) = current_f
         /\ Proportional(self_derivs, other_derivs, k + 1, current_f)

\* the assertions of verify_g1 / verify_g2 on the derivatives along the edges
DerivativesAgree(self_derivs, other_derivs) ==
    /\ \A k \in 1 .. Len(self_derivs) :
          Direction(self_derivs[k]) = Direction(other_derivs[k])
    /\ Proportional(self_derivs, other_derivs, 1, <<>>)

\* BezierSurface.verify_g0, verify_g1, verify_g2: whether the assertions hold
verify_g0(s, other, surface_edge, other_surface_edge, n_points) ==
    get_edge(s, surface_edge, n_points) = get_edge(other, other_surface_edge, n_points)

verify_g1(s, other, surface_edge, other_surface_edge, n_points) ==
    DerivativesAgree(get_first_derivs_along_edge(s, surface_edge, n_points),
                     get_first_derivs_along_edge(other, other_surface_edge, n_points))

verify_g2(s, other, surface_edge, other_surface_edge, n_points) ==
    DerivativesAgree(get_second_derivs_along_edge(s, surface_edge, n_points),
                     get_second_derivs_along_edge(other, other_surface_edge, n_points))

(***************************************************************************)
(* The B-spline basis of NURBSSurface.  A knot vector is a sequence of     *)
(* numbers; the code's index i is position i + 1 of the sequence.          *)
(***************************************************************************)
Less(x, y) == x[1] * y[2] < y[1] * x[2]
LessEq(x, y) == x[1] * y[2] <= y[1] * x[2]

\* possible_span_indices of _get_possible_spans: the indices of the knots
\* that differ from their successor
possible_span_indices(knot_vector) ==
    {knot_idx \in 0 .. Len(knot_vector) - 2 :
        knot_vector[knot_idx + 1] # knot_vector[knot_idx + 2]}

\* mutant: every span is half open, the right end of the last one included
find_span_HalfOpen(t, knot_vector) ==
    LET holds == {idx \in possible_span_indices(knot_vector) :
                    LessEq(knot_vector[idx + 1], t) /\ Less(t, knot_vector[idx + 2])}
    IN  IF holds # {} THEN CHOOSE idx \in holds : \A other \in holds : idx <= other
        ELSE -1

\* _find_span: the first span [knot_1, knot_2) that holds t, the last span
\* when t is its right end, None (-1) otherwise
find_span(t, knot_vector) ==
    LET holds == {idx \in possible_span_indices(knot_vector) :
                    LessEq(knot_vector[idx + 1], t) /\ Less(t, knot_vector[idx + 2])}
        final == CHOOSE idx \in possible_span_indices(knot_vector) :
                    \A other \in possible_span_indices(knot_vector) : other <= idx
    IN  IF holds # {} THEN CHOOSE idx \in holds : \A other \in holds : idx <= other
        ELSE IF possible_span_indices(knot_vector) # {} /\ t = knot_vector[final + 2]
        THEN final
        ELSE -1

\* a quotient of _cox_de_boor, 0.0 in place of inf and nan
Quotient(x, y) == IF IsFinite(Div(x, y)) THEN Div(x, y) ELSE Num(0)

\* mutant: g is taken on the knots i + p and i + 1
RECURSIVE cox_de_boor_ShortSpan(_, _, _, _)
cox_de_boor_ShortSpan(t, i, p, knot_vector) ==
    IF p = 0
    THEN IF i \in possible_span_indices(knot_vector) /\ find_span(t, knot_vector) = i
         THEN Num(1) ELSE Num(0)
    ELSE LET f == Quotient(Sub(t, knot_vector[i + 1]),
                           Sub(knot_vector[i + p + 1], knot_vector[i + 1]))
             g == Quotient(Sub(knot_vector[i + p + 1], t),
                           Sub(knot_vector[i + p + 1], knot_vector[i + 2]))
         IN  IF f = Num(0) /\ g = Num(0) THEN Num(0)
             ELSE IF g = Num(0)
             THEN Mul(f, cox_de_boor_ShortSpan(t, i, p - 1, knot_vector))
             ELSE IF f = Num(0)
             THEN Mul(g, cox_de_boor_ShortSpan(t, i + 1, p - 1, knot_vector))
             ELSE Add(Mul(f, cox_de_boor_ShortSpan(t, i, p - 1, knot_vector)),
                      Mul(g, cox_de_boor_ShortSpan(t, i + 1, p - 1, knot_vector)))

\* _cox_de_boor
RECURSIVE cox_de_boor(_, _, _, _)
cox_de_boor(t, i, p, knot_vector) ==
    IF p = 0
    THEN IF i \in possible_span_indices(knot_vector) /\ find_span(t, knot_vector) = i
         THEN Num(1) ELSE Num(0)
    ELSE LET f == Quotient(Sub(t, knot_vector[i + 1]),
                           Sub(knot_vector[i + p + 1], knot_vector[i + 1]))
             g == Quotient(Sub(knot_vector[i + p + 2], t),
                           Sub(knot_vector[i + p + 2], knot_vector[i + 2]))
         IN  IF f = Num(0) /\ g = Num(0) THEN Num(0)
             ELSE IF g = Num(0)
             THEN Mul(f, cox_de_boor(t, i, p - 1, knot_vector))
             ELSE IF f = Num(0)
             THEN Mul(g, cox_de_boor(t, i + 1, p - 1, knot_vector))
             ELSE Add(Mul(f, cox_de_boor(t, i, p - 1, knot_vector)),
                      Mul(g, cox_de_boor(t, i + 1, p - 1, knot_vector)))

\* _basis_functions: the values for i = 0 .. n - 1, as a sequence
basis_functions(t, p, knot_vector, n_control_points_u_or_v) ==
    [k \in 1 .. n_control_points_u_or_v |-> cox_de_boor(t, k - 1, p, knot_vector)]

\* mutant: the last knot read lies one place further
KnotReads_Beyond(i, p) == {i, i + p, i + p + 2, i + 1}

\* the knot indices (counted from 0) that one level of _cox_de_boor with
\* p > 0 reads to form f and g
KnotReads(i, p) == {i, i + p, i + p + 1, i + 1}

\* the knot indices that miss a knot vector of the given length; a negative
\* index counts from the end, as in the source language
OutOfRange(reads, length) == {k \in reads : k >= length \/ k < 0 - length}

\* f and g of _cox_de_boor
cox_de_boor_f(t, i, p, knot_vector) ==
    Quotient(Sub(t, knot_vector[i + 1]),
             Sub(knot_vector[i + p + 1], knot_vector[i + 1]))

cox_de_boor_g(t, i, p, knot_vector) ==
    Quotient(Sub(knot_vector[i + p + 2], t),
             Sub(knot_vector[i + p + 2], knot_vector[i + 2]))

\* the record of a run that calls itself on the runs in the set below
Nested(reads, below) ==
    [reads |-> reads \cup UNION {b.reads : b \in below},
     depth |-> IF below = {} THEN 0
               ELSE 1 + (CHOOSE d \in {b.depth : b \in below} :
                            \A b \in below : b.depth <= d),
     degrees |-> UNION {b.degrees : b \in below},
     outcome |-> IF \E b \in below : b.outcome # "ok" THEN "IndexError" ELSE "ok"]

\* the run of _cox_de_boor: the knot indices it reads, the depth of its
\* recursion, the pairs <<p of the caller, p of the callee>> of its recursive
\* calls, and whether a read missed the knot vector
RECURSIVE cox_de_boor_run(_, _, _, _)
cox_de_boor_run(t, i, p, knot_vector) ==
    IF p = 0
    THEN [reads |-> {}, depth |-> 0, degrees |-> {}, outcome |-> "ok"]
    ELSE IF OutOfRange(KnotReads(i, p), Len(knot_vector)) # {}
    THEN [reads |-> KnotReads(i, p), depth |-> 0, degrees |-> {},
          outcome |-> "IndexError"]
    ELSE LET f == cox_de_boor_f(t, i, p, knot_vector)
             g == cox_de_boor_g(t, i, p, knot_vector)
             first == cox_de_boor_run(t, i, p - 1, knot_vector)
             second == cox_de_boor_run(t, i + 1, p - 1, knot_vector)
             called == Nested(KnotReads(i, p),
                              (IF f # Num(0) THEN {first} ELSE {})
                                \cup (IF g # Num(0) THEN {second} ELSE {}))
         IN  [called EXCEPT !.degrees =
                 @ \cup (IF f # Num(0) \/ g # Num(0) THEN {<<p, p - 1>>} ELSE {})]

\* Bu[i] * Bv[j] * weights[i][j] of the k-th pass of the loop of
\* NURBSSurface.evaluate_ndarray
NURBSTerm(s, k, Bu, Bv) ==
    Mul(Mul(Bu[GridIndex(s, k)[1] + 1], Bv[GridIndex(s, k)[2] + 1]),
        s.weights[GridIndex(s, k)[1]][GridIndex(s, k)[2]])

\* weighted_cps and denominator of NURBSSurface.evaluate_ndarray
NURBSNumerator(s, Bu, Bv) ==
    SumFirst([k \in 1 .. s.Nu * s.Nv |->
                Mul(s.points[GridIndex(s, k)[1]][GridIndex(s, k)[2]],
                    NURBSTerm(s, k, Bu, Bv))],
             s.Nu * s.Nv)

NURBSDenominator(s, Bu, Bv) ==
    SumFirst([k \in 1 .. s.Nu * s.Nv |-> NURBSTerm(s, k, Bu, Bv)], s.Nu * s.Nv)

\* NURBSSurface.evaluate_ndarray
NURBSEvaluate(s, u, v) ==
    Only({Div(NURBSNumerator(s, Bs[1], Bs[2]), NURBSDenominator(s, Bs[1], Bs[2]))
          : Bs \in {<<basis_functions(u, s.degree_u, s.knots_u, s.Nu),
                     basis_functions(v, s.degree_v, s.knots_v, s.Nv)>>}})

Seeds == {1, 2}

PointValue(k, i, j) ==
    k * k + (3 * k + 1) * i * i + (k + 4) * j * j * j + (k + 1) * i * j + 2 * i + 5 * j

WeightValue(k, i, j) == (k + i + 2 * j + i * j) % 3

PointNet(k, nu, nv) ==
    [i \in 0 .. nu - 1 |-> [j \in 0 .. nv - 1 |-> Num(PointValue(k, i, j))]]

WeightNet(k, nu, nv) ==
    [i \in 0 .. nu - 1 |-> [j \in 0 .. nv - 1 |-> Num(WeightValue(k, i, j))]]

\* the weight grids tried: a non-negative one, and the same with one negative entry
WeightInputs(k, nu, nv) ==
    {WeightNet(k, nu, nv)}
      \cup {[WeightNet(k, nu, nv) EXCEPT ![i][j] = Num(-1)] :
              i \in 0 .. nu - 1, j \in 0 .. nv - 1}

\* mutant: only the first row of the grid is checked
HasNegativeWeightFirstRow(weights) ==
    \E j \in DOMAIN weights[0] : IsNegative(weights[0][j])

\* "Negative weight check" of both rational constructors
HasNegativeWeight(weights) ==
    \E i \in DOMAIN weights : \E j \in DOMAIN weights[i] : IsNegative(weights[i][j])

BezierSurface(points) ==
    [kind |-> "bezier", Nu |-> Cardinality(DOMAIN points),
     Nv |-> Cardinality(DOMAIN points[0]), points |-> points, weights |-> <<>>]

\* knots_u = np.zeros(2 * n); knots_u[n:] = 1.0
DerivedKnots(n) == [k \in 1 .. 2 * n |-> IF k <= n THEN Num(0) ELSE Num(1)]

RationalBezierSurface(points, weights) ==
    [kind |-> "rational", Nu |-> Cardinality(DOMAIN points),
     Nv |-> Cardinality(DOMAIN points[0]), points |-> points, weights |-> weights,
     knots_u |-> DerivedKnots(Cardinality(DOMAIN points)),
     knots_v |-> DerivedKnots(Cardinality(DOMAIN points[0])),
     degree_u |-> Cardinality(DOMAIN points) - 1,
     degree_v |-> Cardinality(DOMAIN points[0]) - 1]

\* a clamped knot vector for n control points of degree p
ClampedKnots(n, p) ==
    [t \in 1 .. n + p + 1 |->
        IF t <= p + 1 THEN Num(0) ELSE IF t > n THEN Num(1) ELSE Frac(t - p - 1, n - p)]

KnotInputs(n, p) == {ClampedKnots(n, p), Append(ClampedKnots(n, p), Num(1))}

\* mutant: only the length of knots_u is asserted
KnotLengthsOkUOnly(control_points, knots_u, knots_v, degree_u_, degree_v_) ==
    Len(knots_u) = Cardinality(DOMAIN control_points) + degree_u_ + 1

\* the assertions of NURBSSurface.__init__ on the knot vectors
KnotLengthsOk(control_points, knots_u, knots_v, degree_u_, degree_v_) ==
    /\ Len(knots_u) = Cardinality(DOMAIN control_points) + degree_u_ + 1
    /\ Len(knots_v) = Cardinality(DOMAIN control_points[0]) + degree_v_ + 1

NURBSSurface(control_points, knots_u, knots_v, weights, degree_u_, degree_v_) ==
    [kind |-> "nurbs", Nu |-> Cardinality(DOMAIN control_points),
     Nv |-> Cardinality(DOMAIN control_points[0]),
     points |-> control_points, weights |-> weights,
     knots_u |-> knots_u, knots_v |-> knots_v,
     degree_u |-> degree_u_, degree_v |-> degree_v_]

(***************************************************************************)
(* State and actions.  patch[p] is the p-th Bezier / rational Bezier       *)
(* surface object (NoPatch until constructed), nurbs the NURBS surface     *)
(* object, last the record of the last call made and of the objects as     *)
(* they were before it, nCalls the number of enforcement calls made.       *)
(***************************************************************************)
NoF == [arr |-> FALSE, val |-> Num(0), vals |-> <<>>]

Call(op, tgt, src, surface_edge, other_surface_edge, f, outcome, phase, row, arg) ==
    [op |-> op, tgt |-> tgt, src |-> src, surface_edge |-> surface_edge,
     other_surface_edge |-> other_surface_edge, f |-> f, outcome |-> outcome,
     phase |-> phase, row |-> row, pre |-> patch, arg |-> arg]

Init ==
    /\ patch = [p \in PatchIds |-> NoPatch]
    /\ nurbs = NoPatch
    /\ last = [op |-> "none", tgt |-> 0, src |-> 0, surface_edge |-> "none",
               other_surface_edge |-> "none", f |-> NoF, outcome |-> "ok",
               phase |-> "pre", row |-> 0, pre |-> patch, arg |-> <<>>]
    /\ nCalls = 0

Shapes == (1 .. MaxN) \X (1 .. MaxN)

\* an exception raised by a constructor is not caught: the run ends there
CanConstruct(p) ==
    /\ last.outcome = "ok"
    /\ patch[p] = NoPatch
    /\ nurbs = NoPatch
    /\ \A q \in PatchIds : q < p => patch[q] # NoPatch

ConstructBezier(p) ==
    /\ CanConstruct(p)
    /\ \E sh \in Shapes, k \in Seeds :
         /\ patch' = [patch EXCEPT ![p] = BezierSurface(PointNet(k, sh[1], sh[2]))]
         /\ last' = Call("BezierSurface", p, 0, "none", "none", NoF, "ok", "pre", 0, <<>>)
    /\ UNCHANGED <<nurbs, nCalls>>

ConstructRational(p) ==
    /\ CanConstruct(p)
    /\ \E sh \in Shapes, k \in Seeds :
         \E weights \in WeightInputs(k, sh[1], sh[2]) :
            IF HasNegativeWeight(weights)
            THEN /\ last' = Call("RationalBezierSurface", p, 0, "none", "none", NoF,
                                 "NegativeWeightError", "pre", 0, weights)
                 /\ UNCHANGED patch
            ELSE /\ last' = Call("RationalBezierSurface", p, 0, "none", "none", NoF,
                                 "ok", "pre", 0, weights)
                 /\ patch' = [patch EXCEPT ![p] =
                                RationalBezierSurface(PointNet(k, sh[1], sh[2]), weights)]
    /\ UNCHANGED <<nurbs, nCalls>>

\* the NURBS surface is built in a run of its own: no constructor reads
\* anything but its arguments
ConstructNURBS ==
    /\ last.op = "none"
    /\ \E sh \in Shapes, k \in Seeds :
         \E du \in 0 .. sh[1] - 1, dv \in 0 .. sh[2] - 1 :
           \E knots_u \in KnotInputs(sh[1], du), knots_v \in KnotInputs(sh[2], dv),
              weights \in WeightInputs(k, sh[1], sh[2]) :
             LET control_points == PointNet(k, sh[1], sh[2])
                 outcome ==
                    IF ~KnotLengthsOk(control_points, knots_u, knots_v, du, dv)
                    THEN "AssertionError"
                    ELSE IF HasNegativeWeight(weights) THEN "NegativeWeightError"
                    ELSE "ok"
             IN  /\ last' = Call("NURBSSurface", 0, 0, "none", "none", NoF,
                                 outcome, "pre", 0,
                                 [weights |-> weights, control_points |-> control_points,
                                  knots_u |-> knots_u, knots_v |-> knots_v,
                                  degree_u |-> du, degree_v |-> dv])
                 /\ nurbs' = IF outcome = "ok"
                             THEN NURBSSurface(control_points, knots_u, knots_v,
                                               weights, du, dv)
                             ELSE nurbs
    /\ UNCHANGED <<patch, nCalls>>

\* the float tangent ratios and the per-row arrays passed as f
FScalars == {[arr |-> FALSE, val |-> Frac(1, 2), vals |-> <<>>],
             [arr |-> FALSE, val |-> Num(2), vals |-> <<>>]}

FArrays == {[arr |-> TRUE, val |-> Num(0), vals |-> [r \in 1 .. n |-> Num(r)]] :
              n \in 1 .. MaxN}

FInputs(s) == IF IsRational(s) THEN FScalars \cup FArrays ELSE FScalars

\* what the method op does to target s; f is ignored by the methods without f
Apply(op, s, other, f, surface_edge, other_surface_edge) ==
    CASE op = "enforce_g0" -> enforce_g0(s, other, surface_edge, other_surface_edge)
      [] op = "enforce_c0" -> enforce_c0(s, other, surface_edge, other_surface_edge)
      [] op = "enforce_g0g1" ->
           enforce_g0g1(s, other, f, surface_edge, other_surface_edge)
      [] op = "enforce_c0c1" ->
           enforce_c0c1(s, other, surface_edge, other_surface_edge)
      [] op = "enforce_g0g1g2" ->
           enforce_g0g1g2(s, other, f, surface_edge, other_surface_edge)
      [] op = "enforce_c0c1c2" ->
           enforce_c0c1c2(s, other, surface_edge, other_surface_edge)

OpsWithF == {"enforce_g0g1", "enforce_g0g1g2"}
OpsWithoutF == {"enforce_g0", "enforce_c0", "enforce_c0c1", "enforce_c0c1c2"}

\* patch[b].op(patch[a], [f,] surface_edge, other_surface_edge)
Enforce(op, b, a, f, surface_edge, other_surface_edge) ==
    /\ patch[b] # NoPatch /\ patch[a] # NoPatch
    /\ patch[a].kind = patch[b].kind
    /\ \E r \in {Apply(op, patch[b], patch[a], f, surface_edge, other_surface_edge)} :
           /\ patch' = [patch EXCEPT ![b] = r.s]
           /\ last' = Call(op, b, a, surface_edge, other_surface_edge, f,
                           r.outcome, r.phase, r.row, <<>>)
    /\ nCalls' = nCalls + 1
    /\ UNCHANGED nurbs

EnforceAny(b, a) ==
    \E surface_edge \in SurfaceEdge, other_surface_edge \in SurfaceEdge :
       \/ \E op \in OpsWithoutF :
             Enforce(op, b, a, NoF, surface_edge, other_surface_edge)
       \/ \E op \in OpsWithF : \E f \in FInputs(patch[b]) :
             Enforce(op, b, a, f, surface_edge, other_surface_edge)

\* one enforcement call on a freshly constructed pair of patches
FirstCall ==
    /\ nCalls = 0
    /\ EnforceAny(2, 1)

Next ==
    \/ \E p \in PatchIds : ConstructBezier(p)
    \/ \E p \in PatchIds : ConstructRational(p)
    \/ ConstructNURBS
    \/ FirstCall

Spec == Init /\ [][Next]_vars

(***************************************************************************)
(* SpecSeq: sequences of up to MaxCalls enforcement calls, in either       *)
(* direction, between two rational patches of SeqN x SeqN control points;  *)
(* a call that raised is followed by further calls (the caller caught the  *)
(* exception).                                                             *)
(***************************************************************************)
\* control points per direction of the patches of SpecSeq
SeqN == 3

ConstructSeq(p) ==
    /\ CanConstruct(p)
    /\ \E k \in Seeds : \E weights \in WeightInputs(k, SeqN, SeqN) :
          IF HasNegativeWeight(weights)
          THEN /\ last' = Call("RationalBezierSurface", p, 0, "none", "none", NoF,
                               "NegativeWeightError", "pre", 0, weights)
               /\ UNCHANGED patch
          ELSE /\ last' = Call("RationalBezierSurface", p, 0, "none", "none", NoF,
                               "ok", "pre", 0, weights)
               /\ patch' = [patch EXCEPT ![p] =
                              RationalBezierSurface(PointNet(k, SeqN, SeqN), weights)]
    /\ UNCHANGED <<nurbs, nCalls>>

FSeq == {[arr |-> FALSE, val |-> Num(2), vals |-> <<>>]}

SeqCall ==
    /\ nCalls < MaxCalls
    /\ \E b \in PatchIds : \E a \in PatchIds \ {b} :
         \E surface_edge \in SurfaceEdge, other_surface_edge \in SurfaceEdge :
            \/ \E op \in {"enforce_c0", "enforce_c0c1", "enforce_c0c1c2"} :
                  Enforce(op, b, a, NoF, surface_edge, other_surface_edge)
            \/ \E op \in OpsWithF : \E f \in FSeq :
                  Enforce(op, b, a, f, surface_edge, other_surface_edge)

NextSeq ==
    \/ \E p \in PatchIds : ConstructSeq(p)
    \/ SeqCall

SpecSeq == Init /\ [][NextSeq]_vars

(***************************************************************************)
(* SpecAccess: one surface is constructed and one accessor is called on    *)
(* it, with edge values and indices inside and outside their ranges.       *)
(***************************************************************************)
\* a value that is none of the four members of SurfaceEdge
EdgeInputs == SurfaceEdge \cup {"Invalid"}

\* row and continuity indices tried: negative, in range and past the end
AccessIndex == -1 .. MaxN

\* the point / weight handed to the setters (no net holds it)
NewValue == Frac(1, 3)

NoReturn == "none"

\* a call of get_point, set_point, get_weight or set_weight: the surface as
\* the call leaves it, how it ended and what it returned
AccessCall(op, s, value, row_index, continuity_index, surface_edge) ==
    IF surface_edge \notin SurfaceEdge
    THEN [s |-> s, outcome |-> "ValueError", ret |-> NoReturn]
    ELSE IF ~InRange(s, row_index, continuity_index, surface_edge)
    THEN [s |-> s, outcome |-> "IndexError", ret |-> NoReturn]
    ELSE CASE op = "get_point" ->
                [s |-> s, outcome |-> "ok",
                 ret |-> get_point(s, row_index, continuity_index, surface_edge)]
           [] op = "get_weight" ->
                [s |-> s, outcome |-> "ok",
                 ret |-> get_weight(s, row_index, continuity_index, surface_edge)]
           [] op = "set_point" ->
                [s |-> set_point(s, value, row_index, continuity_index, surface_edge),
                 outcome |-> "ok", ret |-> NoReturn]
           [] op = "set_weight" ->
                [s |-> set_weight(s, value, row_index, continuity_index, surface_edge),
                 outcome |-> "ok", ret |-> NoReturn]

\* the surface the accessors are called on exists, it is the only one and
\* nothing was called yet
CanAccess ==
    /\ nCalls = 0 /\ last.outcome = "ok"
    /\ patch[1] # NoPatch /\ patch[2] = NoPatch

Accessor(op) ==
    /\ CanAccess
    /\ \E surface_edge \in EdgeInputs, row_index \in AccessIndex,
          continuity_index \in AccessIndex :
         \E r \in {AccessCall(op, patch[1], NewValue, row_index, continuity_index,
                              surface_edge)} :
            /\ patch' = [patch EXCEPT ![1] = r.s]
            /\ last' = Call(op, 1, 0, surface_edge, "none", NoF, r.outcome, "pre", 0,
                            [row_index |-> row_index,
                             continuity_index |-> continuity_index,
                             value |-> NewValue, ret |-> r.ret])
    /\ nCalls' = nCalls + 1
    /\ UNCHANGED nurbs

HasPoints(s) == s.kind \in {"bezier", "rational"}

GetPoint == HasPoints(patch[1]) /\ Accessor("get_point")
SetPoint == HasPoints(patch[1]) /\ Accessor("set_point")
GetWeight == IsRational(patch[1]) /\ Accessor("get_weight")
SetWeight == IsRational(patch[1]) /\ Accessor("set_weight")

\* a call that returns a value and leaves every surface as it is
Observe(op, selector, outcome, arg) ==
    /\ last' = Call(op, 1, 0, selector, "none", NoF, outcome, "pre", 0, arg)
    /\ nCalls' = nCalls + 1
    /\ UNCHANGED <<patch, nurbs>>

GetParallelDegree ==
    /\ CanAccess
    /\ \E surface_edge \in EdgeInputs :
         Observe("get_parallel_degree", surface_edge, "ok",
                 [ret |-> get_parallel_degree(patch[1], surface_edge)])

GetPerpendicularDegree ==
    /\ CanAccess
    /\ \E surface_edge \in EdgeInputs :
         Observe("get_perpendicular_degree", surface_edge, "ok",
                 [ret |-> get_perpendicular_degree(patch[1], surface_edge)])

\* the sample counts n_points tried
SampleCounts == {2, 3}

GetEdge ==
    /\ CanAccess /\ patch[1].kind = "bezier"
    /\ \E edge \in EdgeInputs, n_points \in SampleCounts :
         IF edge \in SurfaceEdge
         THEN Observe("get_edge", edge, "ok",
                      [n_points |-> n_points, ret |-> get_edge(patch[1], edge, n_points)])
         ELSE Observe("get_edge", edge, "ValueError",
                      [n_points |-> n_points, ret |-> NoReturn])

\* the parameter values u, v tried
ParamInputs == {Num(0), Frac(1, 2), Num(1)}

Evaluate ==
    /\ CanAccess /\ HasPoints(patch[1])
    /\ \E u \in ParamInputs, v \in ParamInputs :
         Observe("evaluate_ndarray", "none", "ok",
                 [u |-> u, v |-> v,
                  ret |-> IF IsRational(patch[1]) THEN RationalEvaluate(patch[1], u, v)
                          ELSE BezierEvaluate(patch[1], u, v)])

\* a grid of weights that are all 1
UnitWeights(nu, nv) == [i \in 0 .. nu - 1 |-> [j \in 0 .. nv - 1 |-> Num(1)]]

ConstructRationalUnit ==
    /\ CanConstruct(1)
    /\ \E sh \in Shapes, k \in Seeds :
         /\ last' = Call("RationalBezierSurface", 1, 0, "none", "none", NoF,
                         "ok", "pre", 0, UnitWeights(sh[1], sh[2]))
         /\ patch' = [patch EXCEPT ![1] =
                        RationalBezierSurface(PointNet(k, sh[1], sh[2]),
                                              UnitWeights(sh[1], sh[2]))]
    /\ UNCHANGED <<nurbs, nCalls>>

\* a NURBS surface with weights all 1 on clamped knot vectors
ConstructNURBSUnit ==
    /\ last.op = "none"
    /\ \E sh \in Shapes, k \in Seeds :
         \E du \in 0 .. sh[1] - 1, dv \in 0 .. sh[2] - 1 :
            /\ last' = Call("NURBSSurface", 0, 0, "none", "none", NoF, "ok", "pre", 0,
                            [weights |-> UnitWeights(sh[1], sh[2]),
                             control_points |-> PointNet(k, sh[1], sh[2]),
                             knots_u |-> ClampedKnots(sh[1], du),
                             knots_v |-> ClampedKnots(sh[2], dv),
                             degree_u |-> du, degree_v |-> dv])
            /\ nurbs' = NURBSSurface(PointNet(k, sh[1], sh[2]),
                                     ClampedKnots(sh[1], du), ClampedKnots(sh[2], dv),
                                     UnitWeights(sh[1], sh[2]), du, dv)
    /\ UNCHANGED <<patch, nCalls>>

EvaluateNURBS ==
    /\ nCalls = 0 /\ last.outcome = "ok" /\ nurbs # NoPatch
    /\ \E u \in ParamInputs, v \in ParamInputs :
         last' = Call("evaluate_ndarray", 0, 0, "none", "none", NoF, "ok", "pre", 0,
                      [u |-> u, v |-> v, ret |-> NURBSEvaluate(nurbs, u, v)])
    /\ nCalls' = nCalls + 1
    /\ UNCHANGED <<patch, nurbs>>

CornerInputs == SurfaceCorner \cup {"Invalid"}

GetCornerIndex ==
    /\ CanAccess /\ IsRational(patch[1])
    /\ \E surface_corner \in CornerInputs :
         IF surface_corner \in SurfaceCorner
         THEN Observe("get_corner_index", surface_corner, "ok",
                      [ret |-> get_corner_index(patch[1], surface_corner)])
         ELSE Observe("get_corner_index", surface_corner, "ValueError",
                      [ret |-> NoReturn])

NextAccess ==
    \/ ConstructBezier(1)
    \/ ConstructRational(1)
    \/ ConstructRationalUnit
    \/ ConstructNURBS
    \/ ConstructNURBSUnit
    \/ GetPoint
    \/ SetPoint
    \/ GetWeight
    \/ SetWeight
    \/ GetParallelDegree
    \/ GetPerpendicularDegree
    \/ GetEdge
    \/ GetCornerIndex
    \/ Evaluate
    \/ EvaluateNURBS

SpecAccess == Init /\ [][NextAccess]_vars

(***************************************************************************)
(* SpecFrame: what a call changes.  One or two surfaces of 2 or FrameN     *)
(* control points in each direction are made; then one call is made: an    *)
(* enforcement call on the second surface against the first, or a call of  *)
(* one of the methods that evaluate, differentiate, read or verify.        *)
(***************************************************************************)
FrameN == 4

FrameShapes == {2, FrameN} \X {2, FrameN}

ConstructBezierFrame(p) ==
    /\ CanConstruct(p) /\ nCalls = 0
    /\ \E sh \in FrameShapes, k \in Seeds :
         /\ patch' = [patch EXCEPT ![p] = BezierSurface(PointNet(k, sh[1], sh[2]))]
         /\ last' = Call("BezierSurface", p, 0, "none", "none", NoF, "ok", "pre", 0, <<>>)
    /\ UNCHANGED <<nurbs, nCalls>>

ConstructRationalFrame(p) ==
    /\ CanConstruct(p) /\ nCalls = 0
    /\ \E sh \in FrameShapes, k \in Seeds :
         /\ patch' = [patch EXCEPT ![p] =
                        RationalBezierSurface(PointNet(k, sh[1], sh[2]),
                                              WeightNet(k, sh[1], sh[2]))]
         /\ last' = Call("RationalBezierSurface", p, 0, "none", "none", NoF, "ok",
                         "pre", 0, WeightNet(k, sh[1], sh[2]))
    /\ UNCHANGED <<nurbs, nCalls>>

\* op(u, v) on the only surface, ret what it returns
Differentiate(op, u, v, ret) ==
    Observe(op, "none", "ok", [u |-> u, v |-> v, ret |-> ret])

Call_dSdu ==
    /\ CanAccess /\ patch[1].kind = "bezier"
    /\ \E u \in ParamInputs, v \in ParamInputs :
         Differentiate("dSdu", u, v, dSdu(patch[1], u, v))

Call_dSdv ==
    /\ CanAccess /\ patch[1].kind = "bezier"
    /\ \E u \in ParamInputs, v \in ParamInputs :
         Differentiate("dSdv", u, v, dSdv(patch[1], u, v))

Call_d2Sdu2 ==
    /\ CanAccess /\ patch[1].kind = "bezier"
    /\ \E u \in ParamInputs, v \in ParamInputs :
         Differentiate("d2Sdu2", u, v, d2Sdu2(patch[1], u, v))

Call_d2Sdv2 ==
    /\ CanAccess /\ patch[1].kind = "bezier"
    /\ \E u \in ParamInputs, v \in ParamInputs :
         Differentiate("d2Sdv2", u, v, d2Sdv2(patch[1], u, v))

ComputeFirstDerivativeU ==
    /\ CanAccess /\ IsRational(patch[1])
    /\ \E u \in ParamInputs, v \in ParamInputs :
         Differentiate("compute_first_derivative_u", u, v,
                       compute_first_derivative_u(patch[1], u, v))

ComputeFirstDerivativeV ==
    /\ CanAccess /\ IsRational(patch[1])
    /\ \E u \in ParamInputs, v \in ParamInputs :
         Differentiate("compute_first_derivative_v", u, v,
                       compute_first_derivative_v(patch[1], u, v))

ComputeSecondDerivativeU ==
    /\ CanAccess /\ IsRational(patch[1])
    /\ \E u \in ParamInputs, v \in ParamInputs :
         Differentiate("compute_second_derivative_u", u, v,
                       compute_second_derivative_u(patch[1], u, v))

ComputeSecondDerivativeV ==
    /\ CanAccess /\ IsRational(patch[1])
    /\ \E u \in ParamInputs, v \in ParamInputs :
         Differentiate("compute_second_derivative_v", u, v,
                       compute_second_derivative_v(patch[1], u, v))

GetFirstDerivsAlongEdge ==
    /\ CanAccess /\ patch[1].kind = "bezier"
    /\ \E edge \in EdgeInputs, n_points \in SampleCounts :
         IF edge \in SurfaceEdge
         THEN Observe("get_first_derivs_along_edge", edge, "ok",
                      [n_points |-> n_points,
                       ret |-> get_first_derivs_along_edge(patch[1], edge, n_points)])
         ELSE Observe("get_first_derivs_along_edge", edge, "ValueError",
                      [n_points |-> n_points, ret |-> NoReturn])

GetSecondDerivsAlongEdge ==
    /\ CanAccess /\ patch[1].kind = "bezier"
    /\ \E edge \in EdgeInputs, n_points \in SampleCounts :
         IF edge \in SurfaceEdge
         THEN Observe("get_second_derivs_along_edge", edge, "ok",
                      [n_points |-> n_points,
                       ret |-> get_second_derivs_along_edge(patch[1], edge, n_points)])
         ELSE Observe("get_second_derivs_along_edge", edge, "ValueError",
                      [n_points |-> n_points, ret |-> NoReturn])

\* patch[2].op(patch[1], surface_edge, other_surface_edge, n_points) for one
\* of verify_g0, verify_g1, verify_g2; holds says whether its assertions hold
Verify(op, surface_edge, other_surface_edge, n_points, holds) ==
    /\ last' = Call(op, 2, 1, surface_edge, other_surface_edge, NoF,
                    IF holds THEN "ok" ELSE "AssertionError", "pre", 0,
                    [n_points |-> n_points])
    /\ nCalls' = nCalls + 1
    /\ UNCHANGED <<patch, nurbs>>

\* two Bezier surfaces exist and nothing was called yet
CanVerify ==
    /\ nCalls = 0 /\ last.outcome = "ok"
    /\ patch[1].kind = "bezier" /\ patch[2].kind = "bezier"

VerifyG0 ==
    /\ CanVerify
    /\ \E surface_edge \in SurfaceEdge, other_surface_edge \in SurfaceEdge,
          n_points \in SampleCounts :
         Verify("verify_g0", surface_edge, other_surface_edge, n_points,
                verify_g0(patch[2], patch[1], surface_edge, other_surface_edge,
                          n_points))

VerifyG1 ==
    /\ CanVerify
    /\ \E surface_edge \in SurfaceEdge, other_surface_edge \in SurfaceEdge,
          n_points \in SampleCounts :
         Verify("verify_g1", surface_edge, other_surface_edge, n_points,
                verify_g1(patch[2], patch[1], surface_edge, other_surface_edge,
                          n_points))

VerifyG2 ==
    /\ CanVerify
    /\ \E surface_edge \in SurfaceEdge, other_surface_edge \in SurfaceEdge,
          n_points \in SampleCounts :
         Verify("verify_g2", surface_edge, other_surface_edge, n_points,
                verify_g2(patch[2], patch[1], surface_edge, other_surface_edge,
                          n_points))

NextFrame ==
    \/ \E p \in PatchIds : ConstructBezierFrame(p)
    \/ \E p \in PatchIds : ConstructRationalFrame(p)
    \/ FirstCall
    \/ Evaluate
    \/ Call_dSdu
    \/ Call_dSdv
    \/ Call_d2Sdu2
    \/ Call_d2Sdv2
    \/ ComputeFirstDerivativeU
    \/ ComputeFirstDerivativeV
    \/ ComputeSecondDerivativeU
    \/ ComputeSecondDerivativeV
    \/ GetEdge
    \/ GetFirstDerivsAlongEdge
    \/ GetSecondDerivsAlongEdge
    \/ GetPoint
    \/ GetWeight
    \/ GetParallelDegree
    \/ GetPerpendicularDegree
    \/ GetCornerIndex
    \/ VerifyG0
    \/ VerifyG1
    \/ VerifyG2

SpecFrame == Init /\ [][NextFrame]_vars

(***************************************************************************)
(* SpecBasis: one call of _basis_functions on a clamped knot vector.  The  *)
(* method reads nothing of the surface it is called on.                    *)
(***************************************************************************)
\* the highest degree p tried
MaxDegree == 5

\* the largest number of interior knots tried
MaxInterior == 3

InteriorKnotValues == {Frac(1, 3), Frac(1, 2), Frac(2, 3)}

\* the nondecreasing sequences of up to MaxInterior interior knots
InteriorKnots ==
    UNION {{q \in [1 .. n -> InteriorKnotValues] :
              \A k \in 1 .. n - 1 : LessEq(q[k], q[k + 1])} : n \in 0 .. MaxInterior}

\* p + 1 zeros, the interior knots, p + 1 ones
ClampedKnotVector(p, interior) ==
    [k \in 1 .. p + 1 |-> Num(0)] \o interior \o [k \in 1 .. p + 1 |-> Num(1)]

\* the parameters t tried: the two ends, and values inside, on and off the knots
BasisParams ==
    {Num(0), Frac(1, 4), Frac(1, 3), Frac(1, 2), Frac(2, 3), Frac(3, 4), Num(1)}

BasisFunctions ==
    /\ nCalls = 0
    /\ \E p \in 1 .. MaxDegree, interior \in InteriorKnots, t \in BasisParams :
         \E knot_vector \in {ClampedKnotVector(p, interior)} :
            last' = Call("_basis_functions", 0, 0, "none", "none", NoF, "ok", "pre", 0,
                         [t |-> t, p |-> p, knot_vector |-> knot_vector,
                          n |-> Len(knot_vector) - p - 1,
                          ret |-> basis_functions(t, p, knot_vector,
                                                  Len(knot_vector) - p - 1)])
    /\ nCalls' = nCalls + 1
    /\ UNCHANGED <<patch, nurbs>>

\* the parameters tried by single basis functions: those above and one on
\* each side of the knot range
CoxParams == BasisParams \cup {Frac(-1, 2), Frac(3, 2)}

\* _cox_de_boor for one index i of the N = len(knot_vector) - p - 1 basis
\* functions of degree p, on a knot vector whose ends are repeated q + 1 times
CoxDeBoor ==
    /\ nCalls = 0
    /\ \E q \in 0 .. MaxDegree, interior \in InteriorKnots, t \in CoxParams :
         \E p \in 0 .. q, knot_vector \in {ClampedKnotVector(q, interior)} :
            \E i \in 0 .. Len(knot_vector) - p - 2 :
               \E run \in {cox_de_boor_run(t, i, p, knot_vector)} :
                  last' = Call("_cox_de_boor", 0, 0, "none", "none", NoF,
                               run.outcome, "pre", 0,
                               [t |-> t, p |-> p, i |-> i, knot_vector |-> knot_vector,
                                n |-> Len(knot_vector) - p - 1,
                                run |-> run,
                                ret |-> IF run.outcome = "ok"
                                        THEN cox_de_boor(t, i, p, knot_vector)
                                        ELSE NaN])
    /\ nCalls' = nCalls + 1
    /\ UNCHANGED <<patch, nurbs>>

NextBasis == BasisFunctions \/ CoxDeBoor

SpecBasis == Init /\ [][NextBasis]_vars

(***************************************************************************)
(* from_bezier_revolve of RationalBezierSurface and of NURBSSurface.       *)
(* Angles are exact fractions of a degree.  A point is given in            *)
(* cylindrical coordinates about the axis of revolution: h its position    *)
(* along the axis, theta its azimuth, radius / over its distance from the  *)
(* axis, over being 1 or the sine the distance was divided by.             *)
(***************************************************************************)
RightAngle == Num(90)

\* float // float and float % float of Python, for a positive divisor
FloorDiv(x, y) == Div(x, y)[1] \div Div(x, y)[2]
Mod(x, y) == Sub(x, Mul(y, Num(FloorDiv(x, y))))

AbsF(x) == <<Abs(x[1]), x[2]>>

\* np.sin of an angle in degrees.  The sine of 0, 30 and 90 degrees and of
\* their images in the other quadrants is a fraction; any other sine of a
\* rational angle is irrational and is kept as <<sign, 1, angle>>, angle
\* strictly between 0 and 90: its first two entries answer IsNegative and
\* IsFinite as the entries of a fraction do
SinFirstQuadrant(sign, x) ==
    IF x = Num(0) THEN Num(0)
    ELSE IF x = Num(30) THEN Frac(sign, 2)
    ELSE IF x = RightAngle THEN Num(sign)
    ELSE <<sign, 1, x>>

SinHalfTurn(sign, x) ==
    SinFirstQuadrant(sign, IF Less(RightAngle, x) THEN Sub(Num(180), x) ELSE x)

Sin(x) ==
    Only({IF LessEq(Num(180), r) THEN SinHalfTurn(-1, Sub(r, Num(180)))
          ELSE SinHalfTurn(1, r) : r \in {Mod(x, Num(360))}})

\* np.linspace(start, stop, num), indexed from 0
LinspaceFrom(start, stop, num) ==
    [k \in 0 .. num - 1 |->
        IF num = 1 THEN start
        ELSE Add(start, Mul(Frac(k, num - 1), Sub(stop, start)))]

\* mutant: a span that is no multiple of a right angle gets no extra segment
N_angles_NoExtra(angle_diff) == 2 * FloorDiv(angle_diff, RightAngle) + 1

\* N_angles of _determine_angle_distribution
N_angles(angle_diff) ==
    IF Mod(angle_diff, RightAngle) = Num(0)
    THEN 2 * FloorDiv(angle_diff, RightAngle) + 1
    ELSE 2 * FloorDiv(angle_diff, RightAngle) + 3

\* mutant: equal angles are not refused
AngleDistributionUnchecked(angle_diff, start_angle, end_angle) ==
    IF N_angles(angle_diff) < 0
    THEN [outcome |-> "ValueError", angles |-> <<>>]
    ELSE [outcome |-> "ok",
          angles |-> LinspaceFrom(start_angle, end_angle, N_angles(angle_diff))]

\* _determine_angle_distribution once angle_diff is known; np.linspace
\* raises ValueError for a negative number of samples
AngleDistribution(angle_diff, start_angle, end_angle) ==
    IF angle_diff = Num(0)
    THEN [outcome |-> "InvalidGeometryError", angles |-> <<>>]
    ELSE IF N_angles(angle_diff) < 0
    THEN [outcome |-> "ValueError", angles |-> <<>>]
    ELSE [outcome |-> "ok",
          angles |-> LinspaceFrom(start_angle, end_angle, N_angles(angle_diff))]

\* _determine_angle_distribution of RationalBezierSurface.from_bezier_revolve
RationalAngleDistribution(start_angle, end_angle) ==
    AngleDistribution(AbsF(Sub(end_angle, start_angle)), start_angle, end_angle)

\* _determine_angle_distribution of NURBSSurface.from_bezier_revolve
NURBSAngleDistribution(start_angle, end_angle) ==
    AngleDistribution(Sub(end_angle, start_angle), start_angle, end_angle)

ProfilePoint(h, radius) ==
    [h |-> Num(h), theta |-> Num(0), radius |-> Num(radius), over |-> Num(1)]

measure_distance_point_line(point) == point.radius

project_point_onto_line(point) ==
    [h |-> point.h, theta |-> Num(0), radius |-> Num(0), over |-> Num(1)]

rotate_point_about_axis(point, angle) ==
    [point EXCEPT !.theta = Add(point.theta, angle)]

\* np.sin(0.5 * np.pi - 0.5 * (angles[idx + 1].rad - angles[idx - 1].rad))
sine_half_angle(angles, idx) ==
    Sin(Sub(RightAngle, Mul(Frac(1, 2), Sub(angles[idx + 1], angles[idx - 1]))))

\* axis_projection + distance * normalized(vector), distance = radius / sine
OffArcPoint(axis_projection, rotated_point, radius, sine) ==
    [h |-> axis_projection.h, theta |-> rotated_point.theta,
     radius |-> radius, over |-> sine]

\* mutant: a point on the axis is rotated and moved as any other
new_points_Always(point, angles) ==
    [idx \in DOMAIN angles |->
        IF idx % 2 = 0 THEN rotate_point_about_axis(point, angles[idx])
        ELSE OffArcPoint(project_point_onto_line(point),
                         rotate_point_about_axis(point, angles[idx]),
                         measure_distance_point_line(point),
                         sine_half_angle(angles, idx))]

\* new_points of one profile point when the loop over idx ends
new_points(point, angles) ==
    [idx \in DOMAIN angles |->
        IF measure_distance_point_line(point) = Num(0) THEN point
        ELSE IF idx % 2 = 0 THEN rotate_point_about_axis(point, angles[idx])
        ELSE OffArcPoint(project_point_onto_line(point),
                         rotate_point_about_axis(point, angles[idx]),
                         measure_distance_point_line(point),
                         sine_half_angle(angles, idx))]

\* weights[-1] of one profile point when the loop over idx ends
new_weights(angles) ==
    [idx \in DOMAIN angles |->
        IF idx % 2 = 0 THEN Num(1) ELSE sine_half_angle(angles, idx)]

\* control_points and weights of from_bezier_revolve; points is indexed from 0
RevolvedPoints(points, angles) ==
    [i \in DOMAIN points |-> new_points(points[i], angles)]

RevolvedWeights(points, angles) == [i \in DOMAIN points |-> new_weights(angles)]

\* np.insert(knots_v, at, new_knot), at counted from 0
InsertAt(knots, at, new_knot) ==
    [k \in 1 .. Len(knots) + 1 |->
        IF k <= at THEN knots[k] ELSE IF k = at + 1 THEN new_knot ELSE knots[k - 1]]

\* knots_v of NURBSSurface.from_bezier_revolve after the passes idx .. n - 1
\* of its insertion loop
RECURSIVE InsertKnots(_, _, _, _)
InsertKnots(knots_v, idx, n_knots_to_insert, delta) ==
    IF idx >= n_knots_to_insert THEN knots_v
    ELSE InsertKnots(InsertAt(knots_v, 3 + idx,
                              IF idx % 2 = 1 THEN knots_v[3 + idx]
                              ELSE Add(knots_v[3 + idx], delta)),
                     idx + 1, n_knots_to_insert, delta)

\* mutant: delta is one over the number of knots to insert plus one
RevolveKnotsV_FullDelta(n_angles) ==
    InsertKnots(<<Num(0), Num(0), Num(0), Num(1), Num(1), Num(1)>>, 0, n_angles - 3,
                Div(Num(1), Num(n_angles - 2)))

\* knots_v of NURBSSurface.from_bezier_revolve for len(angles) = n_angles
RevolveKnotsV(n_angles) ==
    InsertKnots(<<Num(0), Num(0), Num(0), Num(1), Num(1), Num(1)>>, 0, n_angles - 3,
                Div(Num(1), Add(Frac(n_angles - 3, 2), Num(1))))

RevolveKnotsU(n) == [k \in 1 .. 2 * n |-> IF k <= n THEN Num(0) ELSE Num(1)]

\* the angles and the profiles tried
AngleInputs == {Num(0), Num(45), Num(90), Num(180), Num(225), Num(360)}
ProfileRadii == {0, 1}
ProfileHeights == {0, 1}
MaxProfile == 2
Profiles ==
    UNION {[0 .. n - 1 -> {ProfilePoint(h, r) : h \in ProfileHeights, r \in ProfileRadii}]
           : n \in 1 .. MaxProfile}

RevolveCall(tgt, outcome, phase, row, arg) ==
    Call("from_bezier_revolve", tgt, 0, "none", "none", NoF, outcome, phase, row, arg)

RevolveArg(bezier, start_angle, end_angle, angles) ==
    [bezier |-> bezier, start_angle |-> start_angle, end_angle |-> end_angle,
     angles |-> angles]

\* RationalBezierSurface.from_bezier_revolve.  row is the number of profile
\* points the loop has been through when the call ends
RationalRevolve ==
    /\ last.op = "none"
    /\ \E bezier \in Profiles, start_angle \in AngleInputs, end_angle \in AngleInputs :
        \E d \in {RationalAngleDistribution(start_angle, end_angle)} :
          IF d.outcome # "ok"
          THEN /\ last' = RevolveCall(1, d.outcome, "angles", 0,
                                      RevolveArg(bezier, start_angle, end_angle, d.angles))
               /\ UNCHANGED patch
          ELSE \E weights \in {RevolvedWeights(bezier, d.angles)} :
                 IF HasNegativeWeight(weights)
                 THEN /\ last' = RevolveCall(1, "NegativeWeightError", "constructor",
                                   Cardinality(DOMAIN bezier),
                                   RevolveArg(bezier, start_angle, end_angle, d.angles))
                      /\ UNCHANGED patch
                 ELSE /\ last' = RevolveCall(1, "ok", "done", Cardinality(DOMAIN bezier),
                                   RevolveArg(bezier, start_angle, end_angle, d.angles))
                      /\ patch' = [patch EXCEPT ![1] =
                            RationalBezierSurface(RevolvedPoints(bezier, d.angles), weights)]
    /\ UNCHANGED <<nurbs, nCalls>>

\* the outcome of cls(control_points, knots_u, knots_v, weights, degree_u, 2)
RevolveConstructorOutcome(control_points, knots_u, knots_v, weights) ==
    IF ~KnotLengthsOk(control_points, knots_u, knots_v,
                      Cardinality(DOMAIN control_points) - 1, 2)
    THEN "AssertionError"
    ELSE IF HasNegativeWeight(weights) THEN "NegativeWeightError"
    ELSE "ok"

\* NURBSSurface.from_bezier_revolve
NURBSRevolve ==
    /\ last.op = "none"
    /\ \E bezier \in Profiles, start_angle \in AngleInputs, end_angle \in AngleInputs :
        \E d \in {NURBSAngleDistribution(start_angle, end_angle)} :
          IF d.outcome # "ok"
          THEN /\ last' = RevolveCall(0, d.outcome, "angles", 0,
                                      RevolveArg(bezier, start_angle, end_angle, d.angles))
               /\ UNCHANGED nurbs
          ELSE \E g \in {[control_points |-> RevolvedPoints(bezier, d.angles),
                          weights |-> RevolvedWeights(bezier, d.angles),
                          knots_u |-> RevolveKnotsU(Cardinality(DOMAIN bezier)),
                          knots_v |-> RevolveKnotsV(Cardinality(DOMAIN d.angles))]} :
               \E outcome \in {RevolveConstructorOutcome(g.control_points, g.knots_u,
                                                         g.knots_v, g.weights)} :
                 /\ last' = RevolveCall(0, outcome,
                               IF outcome = "ok" THEN "done" ELSE "constructor",
                               Cardinality(DOMAIN bezier),
                               RevolveArg(bezier, start_angle, end_angle, d.angles))
                 /\ nurbs' = IF outcome = "ok"
                             THEN NURBSSurface(g.control_points, g.knots_u, g.knots_v,
                                               g.weights,
                                               Cardinality(DOMAIN bezier) - 1, 2)
                             ELSE nurbs
    /\ UNCHANGED <<patch, nCalls>>

NextRevolve ==
    \/ RationalRevolve
    \/ NURBSRevolve

SpecRevolve == Init /\ [][NextRevolve]_vars

(***************************************************************************)
(* SpecUnit: a rational surface whose weights are all 1 is constructed and *)
(* one of its second derivatives is computed.                              *)
(***************************************************************************)
\* the largest number of control points per direction of these surfaces
UnitN == 4

ConstructRationalUnitNet ==
    /\ CanConstruct(1)
    /\ \E nu \in 1 .. UnitN, nv \in 1 .. UnitN, k \in Seeds :
         /\ last' = Call("RationalBezierSurface", 1, 0, "none", "none", NoF,
                         "ok", "pre", 0, UnitWeights(nu, nv))
         /\ patch' = [patch EXCEPT ![1] =
                        RationalBezierSurface(PointNet(k, nu, nv), UnitWeights(nu, nv))]
    /\ UNCHANGED <<nurbs, nCalls>>

NextUnit ==
    \/ ConstructRationalUnitNet
    \/ ComputeSecondDerivativeU
    \/ ComputeSecondDerivativeV

SpecUnit == Init /\ [][NextUnit]_vars

(***************************************************************************)
(* SpecIGES: an IGESGenerator is constructed on a list of entities and     *)
(* its pointers are assigned, directly or by generate, up to MaxCalls      *)
(* times.  The generator is kept in patch[1].  An entity is an object with *)
(* an identity: objects maps the identities to the entities, the list      *)
(* entities holds identities.  A value is an integer or a reference to an  *)
(* entity.                                                                 *)
(***************************************************************************)
IntValue(n) == [ent |-> FALSE, n |-> n]
EntityValue(id) == [ent |-> TRUE, n |-> id]

\* the number of entity objects of a run
MaxEntities == 2

EntityIds == 1 .. MaxEntities

\* self.entities.index(value), -1 for ValueError: a value that is no entity
\* of the list is equal to none of its members
EntitiesIndex(entities, value) ==
    LET at == {k \in 1 .. Len(entities) : value.ent /\ entities[k] = value.n}
    IN  IF at = {} THEN -1
        ELSE (CHOOSE k \in at : \A other \in at : k <= other) - 1

\* mutant: the number of the entity is its place in the list counted from 1
PointerNumber_FromOne(index) == 1 + 2 * (index + 1)

\* 1 + 2 * self.entities.index(...)
PointerNumber(index) == 1 + 2 * index

\* the loop over entity.parameter_data from parameter k on, for the entity
\* object id
RECURSIVE AssignParameters(_, _, _)
AssignParameters(g, id, k) ==
    IF k > Len(g.objects[id].parameter_data) THEN [g |-> g, outcome |-> "ok"]
    ELSE LET iges_param == g.objects[id].parameter_data[k]
         IN  IF iges_param.dtype # "pointer" \/ ~iges_param.value.ent
             THEN AssignParameters(g, id, k + 1)
             ELSE IF EntitiesIndex(g.entities, iges_param.value) = -1
             THEN [g |-> g, outcome |-> "ValueError"]
             ELSE AssignParameters(
                    [g EXCEPT !.objects[id].parameter_data[k].value =
                        IntValue(PointerNumber(EntitiesIndex(g.entities,
                                                             iges_param.value)))],
                    id, k + 1)

\* the transformation matrix of the entity object id
AssignMatrix(g, id) ==
    IF g.objects[id].transformation_matrix = IntValue(0)
    THEN [g |-> g, outcome |-> "ok"]
    ELSE IF EntitiesIndex(g.entities, g.objects[id].transformation_matrix) = -1
    THEN [g |-> g, outcome |-> "ValueError"]
    ELSE [g |-> [g EXCEPT !.objects[id].transformation_matrix =
                    IntValue(PointerNumber(
                        EntitiesIndex(g.entities, g.objects[id].transformation_matrix)))],
          outcome |-> "ok"]

\* IGESGenerator._assign_integer_values_to_pointers from the entity at
\* position pos of self.entities on
RECURSIVE AssignFrom(_, _)
AssignFrom(g, pos) ==
    IF pos > Len(g.entities) THEN [g |-> g, outcome |-> "ok"]
    ELSE LET params == AssignParameters(g, g.entities[pos], 1)
             matrix == AssignMatrix(params.g, g.entities[pos])
         IN  IF params.outcome # "ok" THEN params
             ELSE IF matrix.outcome # "ok" THEN matrix
             ELSE AssignFrom(matrix.g, pos + 1)

assign_integer_values_to_pointers(g) == AssignFrom(g, 1)

\* the parameters an entity is given: none or one, of dtype pointer or int,
\* holding an integer or an entity
ParameterInputs ==
    {<<>>} \cup {<<[dtype |-> d, value |-> v]>> :
                  d \in {"pointer", "int"},
                  v \in {IntValue(0), IntValue(5)} \cup {EntityValue(id) : id \in EntityIds}}

\* a transformation matrix is 0 or an entity
MatrixInputs == {IntValue(0)} \cup {EntityValue(id) : id \in EntityIds}

EntityInputs ==
    [parameter_data : ParameterInputs, transformation_matrix : MatrixInputs]

\* the lists of distinct entities handed to the generator
EntityLists ==
    {q \in UNION {[1 .. n -> EntityIds] : n \in 1 .. MaxEntities} :
        \A j, k \in DOMAIN q : j # k => q[j] # q[k]}

\* IGESGenerator.__init__
IGESGenerator(entities, objects) ==
    [kind |-> "generator", entities |-> entities, objects |-> objects]

ConstructGenerator ==
    /\ last.op = "none"
    /\ \E entities \in EntityLists, objects \in [EntityIds -> EntityInputs] :
         /\ patch' = [patch EXCEPT ![1] = IGESGenerator(entities, objects)]
         /\ last' = Call("IGESGenerator", 1, 0, "none", "none", NoF, "ok", "pre", 0, <<>>)
    /\ UNCHANGED <<nurbs, nCalls>>

\* the generator exists and no call has raised
CanGenerate ==
    /\ patch[1] # NoPatch /\ patch[1].kind = "generator"
    /\ last.outcome = "ok" /\ nCalls < MaxCalls

AssignPointers ==
    /\ CanGenerate
    /\ \E r \in {assign_integer_values_to_pointers(patch[1])} :
         /\ patch' = [patch EXCEPT ![1] = r.g]
         /\ last' = Call("_assign_integer_values_to_pointers", 1, 0, "none", "none",
                         NoF, r.outcome, "pre", 0, <<>>)
    /\ nCalls' = nCalls + 1
    /\ UNCHANGED nurbs

\* IGESGenerator.generate: the pointers are assigned first; the sections it
\* then writes change nothing kept here
Generate ==
    /\ CanGenerate
    /\ \E r \in {assign_integer_values_to_pointers(patch[1])} :
         /\ patch' = [patch EXCEPT ![1] = r.g]
         /\ last' = Call("generate", 1, 0, "none", "none", NoF, r.outcome, "pre", 0, <<>>)
    /\ nCalls' = nCalls + 1
    /\ UNCHANGED nurbs

NextIGES ==
    \/ ConstructGenerator
    \/ AssignPointers
    \/ Generate

SpecIGES == Init /\ [][NextIGES]_vars

(***************************************************************************)
(* SpecCorner: three surfaces A = 1, B = 2 and C = 3 of one kind are       *)
(* constructed, then B.enforce_g0(A, ...) and B.enforce_g0(C, ...) are     *)
(* called in this order, on any two edges of B.                            *)
(***************************************************************************)
CornerIds == {1, 2, 3}

\* the largest number of control points per direction of these surfaces
CornerN == 3

CornerShapes == (2 .. CornerN) \X (2 .. CornerN)

InitCorner ==
    /\ patch = [p \in CornerIds |-> NoPatch]
    /\ nurbs = NoPatch
    /\ last = [op |-> "none", tgt |-> 0, src |-> 0, surface_edge |-> "none",
               other_surface_edge |-> "none", f |-> NoF, outcome |-> "ok",
               phase |-> "pre", row |-> 0, pre |-> patch, arg |-> <<>>]
    /\ nCalls = 0

\* surface p is constructed after the surfaces before it, of their kind
CanConstructCorner(p, kind) ==
    /\ nCalls = 0 /\ patch[p] = NoPatch
    /\ \A q \in CornerIds : q < p => patch[q] # NoPatch /\ patch[q].kind = kind

ConstructBezierCorner(p) ==
    /\ CanConstructCorner(p, "bezier")
    /\ \E sh \in CornerShapes :
         /\ patch' = [patch EXCEPT ![p] = BezierSurface(PointNet(p, sh[1], sh[2]))]
         /\ last' = Call("BezierSurface", p, 0, "none", "none", NoF, "ok", "pre", 0, <<>>)
    /\ UNCHANGED <<nurbs, nCalls>>

ConstructRationalCorner(p) ==
    /\ CanConstructCorner(p, "rational")
    /\ \E sh \in CornerShapes :
         /\ patch' = [patch EXCEPT ![p] =
                        RationalBezierSurface(PointNet(p, sh[1], sh[2]),
                                              WeightNet(p, sh[1], sh[2]))]
         /\ last' = Call("RationalBezierSurface", p, 0, "none", "none", NoF, "ok",
                         "pre", 0, WeightNet(p, sh[1], sh[2]))
    /\ UNCHANGED <<nurbs, nCalls>>

\* patch[2].op(patch[a], surface_edge, other_surface_edge); arg keeps the
\* record of the call before
CornerCall(a, arg) ==
    \E op \in {"enforce_g0", "enforce_c0"} :
      \E surface_edge \in SurfaceEdge, other_surface_edge \in SurfaceEdge :
        \E r \in {Apply(op, patch[2], patch[a], NoF, surface_edge, other_surface_edge)} :
           /\ patch' = [patch EXCEPT ![2] = r.s]
           /\ last' = Call(op, 2, a, surface_edge, other_surface_edge, NoF,
                           r.outcome, r.phase, r.row, arg)
           /\ nCalls' = nCalls + 1
           /\ UNCHANGED nurbs

\* B.enforce_g0(A, e1, eA)
CornerFirst ==
    /\ nCalls = 0 /\ \A p \in CornerIds : patch[p] # NoPatch
    /\ CornerCall(1, <<>>)

\* B.enforce_g0(C, e2, eC), after the first call has completed
CornerSecond ==
    /\ nCalls = 1 /\ last.outcome = "ok"
    /\ CornerCall(3, [first |-> last])

NextCorner ==
    \/ \E p \in CornerIds : ConstructBezierCorner(p)
    \/ \E p \in CornerIds : ConstructRationalCorner(p)
    \/ CornerFirst
    \/ CornerSecond

SpecCorner == InitCorner /\ [][NextCorner]_vars

(***************************************************************************)
(* Properties                                                              *)
(***************************************************************************)
B == patch[last.tgt]
A == patch[last.src]
PreB == last.pre[last.tgt]

Rows(s, surface_edge) == 0 .. get_parallel_degree(s, surface_edge)

G0Ops == {"enforce_g0", "enforce_c0"}
G1Ops == {"enforce_g0g1", "enforce_c0c1"}
G2Ops == {"enforce_g0g1g2", "enforce_c0c1c2"}
EnforceOps == G0Ops \cup G1Ops \cup G2Ops

\* the tangent ratio the last call ran with, for a row
LastF(row_index) ==
    IF last.op \in {"enforce_c0c1", "enforce_c0c1c2"} THEN Num(1)
    ELSE IF last.f.arr THEN last.f.vals[row_index + 1] ELSE last.f.val

\* C1: after enforce_g0 / enforce_c0 between edges of equal parallel degree the
\* call completes and every boundary point of the target (and, on rational
\* patches, every boundary weight) equals the source's boundary point (weight)
\* of the same row.
C1_G0CopiesBoundary ==
    (last.op \in G0Ops
       /\ get_parallel_degree(PreB, last.surface_edge)
            = get_parallel_degree(A, last.other_surface_edge))
    => /\ last.outcome = "ok"
       /\ \A row_index \in Rows(B, last.surface_edge) :
            /\ get_point(B, row_index, 0, last.surface_edge)
                 = get_point(A, row_index, 0, last.other_surface_edge)
            /\ IsRational(B) =>
                 get_weight(B, row_index, 0, last.surface_edge)
                   = get_weight(A, row_index, 0, last.other_surface_edge)

\* the G0 scenario of the specification: two 3x3 rational patches, West of the
\* target against East of the source, and the call changed the target
C1_Witness ==
    /\ last.op = "enforce_g0" /\ last.outcome = "ok"
    /\ IsRational(B) /\ B.Nu = 3 /\ B.Nv = 3 /\ A.Nu = 3 /\ A.Nv = 3
    /\ last.surface_edge = "West" /\ last.other_surface_edge = "East"
    /\ \A row_index \in 0 .. 2 :
         /\ get_point(PreB, row_index, 0, "West") # get_point(A, row_index, 0, "East")
         /\ get_point(B, row_index, 0, "West") = get_point(A, row_index, 0, "East")
    /\ \E row_index \in 0 .. 2 :
         get_weight(PreB, row_index, 0, "West") # get_weight(B, row_index, 0, "West")

(***************************************************************************)
(* What the formulas of section 4.5 of the specification give for the      *)
(* last call, written from the source patch A (which the call does not     *)
(* touch) alone.  wA(r, c), pA(r, c): weight and point of A in row r at    *)
(* depth c from the source edge.                                           *)
(***************************************************************************)
wA(r, c) == get_weight(A, r, c, last.other_surface_edge)
pA(r, c) == get_point(A, r, c, last.other_surface_edge)
wB(r, c) == get_weight(B, r, c, last.surface_edge)
pB(r, c) == get_point(B, r, c, last.surface_edge)
wPreB(r, c) == get_weight(PreB, r, c, last.surface_edge)
pPreB(r, c) == get_point(PreB, r, c, last.surface_edge)

PerpA == get_perpendicular_degree(A, last.other_surface_edge)
PerpB == get_perpendicular_degree(PreB, last.surface_edge)

\* f * perp_degree_A / perp_degree_B
Scale1(r) == Mul(LastF(r), Frac(PerpA, PerpB))
\* f^2 * (perp_degree_A^2 - perp_degree_A) / (perp_degree_B^2 - perp_degree_B)
Scale2(r) ==
    Mul(Mul(LastF(r), LastF(r)), Frac(PerpA * PerpA - PerpA, PerpB * PerpB - PerpB))

ExpectedW1(r) == Add(wA(r, 0), Mul(Scale1(r), Sub(wA(r, 0), wA(r, 1))))

\* w_B,1 * P_B,1
ExpectedWP1(r) ==
    Add(Mul(wA(r, 0), pA(r, 0)),
        Mul(Scale1(r), Sub(Mul(wA(r, 0), pA(r, 0)), Mul(wA(r, 1), pA(r, 1)))))

ExpectedW2(r) ==
    Add(Sub(Mul(Num(2), ExpectedW1(r)), wA(r, 0)),
        Mul(Scale2(r), Add(Sub(wA(r, 0), Mul(Num(2), wA(r, 1))), wA(r, 2))))

\* w_B,2 * P_B,2
ExpectedWP2(r) ==
    Add(Sub(Mul(Num(2), ExpectedWP1(r)), Mul(wA(r, 0), pA(r, 0))),
        Mul(Scale2(r),
            Add(Sub(Mul(wA(r, 0), pA(r, 0)), Mul(Mul(Num(2), wA(r, 1)), pA(r, 1))),
                Mul(wA(r, 2), pA(r, 2)))))

\* the last call was a rational G1 / G2 enforcement that got as far as its G1 loop
FLengthOk ==
    last.op \in OpsWithF /\ last.f.arr
      => Len(last.f.vals) = get_parallel_degree(PreB, last.surface_edge) + 1

ParallelOk ==
    get_parallel_degree(PreB, last.surface_edge)
      = get_parallel_degree(A, last.other_surface_edge)

RationalG1Ran ==
    /\ last.op \in G1Ops \cup G2Ops /\ IsRational(PreB)
    /\ FLengthOk /\ ParallelOk /\ PerpA >= 1 /\ PerpB >= 1

\* the first row whose G1 weight is negative, or -1
FirstNegative1 ==
    LET bad == {r \in Rows(PreB, last.surface_edge) : IsNegative(ExpectedW1(r))}
    IN  IF bad = {} THEN -1 ELSE CHOOSE r \in bad : \A q \in bad : r <= q

\* the last call was a rational G2 enforcement that got as far as its G2 loop
RationalG2Ran ==
    /\ last.op \in G2Ops /\ RationalG1Ran /\ FirstNegative1 = -1
    /\ PerpA >= 2 /\ PerpB >= 2

FirstNegative2 ==
    LET bad == {r \in Rows(PreB, last.surface_edge) : IsNegative(ExpectedW2(r))}
    IN  IF bad = {} THEN -1 ELSE CHOOSE r \in bad : \A q \in bad : r <= q

RaisedNegative == last.op \in EnforceOps /\ last.outcome = "NegativeWeightError"

\* the depth the raising loop writes at
RaisedDepth == IF last.phase = "G1" THEN 1 ELSE 2

\* C3: a rational G1 / G2 enforcement raises NegativeWeightError exactly when a
\* row's computed weight is negative, at the first such row, and at the raise that
\* row's weight slot and point slot at the loop's depth still hold their pre-call
\* values.
C3_CheckBeforeWrite ==
    /\ RationalG1Ran /\ FirstNegative1 # -1 =>
         /\ RaisedNegative /\ last.phase = "G1" /\ last.row = FirstNegative1
    /\ RationalG2Ran /\ FirstNegative2 # -1 =>
         /\ RaisedNegative /\ last.phase = "G2" /\ last.row = FirstNegative2
    /\ RaisedNegative =>
         /\ last.phase = "G1" => RationalG1Ran /\ last.row = FirstNegative1
         /\ last.phase = "G2" => RationalG2Ran /\ last.row = FirstNegative2
         /\ wB(last.row, RaisedDepth) = wPreB(last.row, RaisedDepth)
         /\ pB(last.row, RaisedDepth) = pPreB(last.row, RaisedDepth)

\* a raise in the G2 loop at a row other than the first, where the weight the
\* check rejected differs from the one the slot holds
C3_Witness ==
    /\ RaisedNegative /\ last.phase = "G2" /\ last.row >= 1
    /\ ExpectedW2(last.row) # wPreB(last.row, 2)
    /\ wB(last.row, 2) = wPreB(last.row, 2)

C3_WitnessG1 ==
    /\ RaisedNegative /\ last.phase = "G1" /\ last.row >= 1 /\ last.f.arr
    /\ wB(last.row, 1) = wPreB(last.row, 1)

\* the depth-0 slots of the target hold the source's boundary
G0Applied ==
    \A r \in Rows(PreB, last.surface_edge) :
       /\ pB(r, 0) = pA(r, 0)
       /\ IsRational(PreB) => wB(r, 0) = wA(r, 0)

\* row r of the target holds the G1 values at depth 1 (rational patches)
RationalG1RowApplied(r) ==
    /\ wB(r, 1) = ExpectedW1(r)
    /\ IF wB(r, 1) = Num(0) THEN ~IsFinite(pB(r, 1))
       ELSE Mul(wB(r, 1), pB(r, 1)) = ExpectedWP1(r)

\* row r of the target holds the G2 values at depth 2 (rational patches)
RationalG2RowApplied(r) ==
    /\ wB(r, 2) = ExpectedW2(r)
    /\ IF wB(r, 2) = Num(0) \/ wB(r, 1) = Num(0) THEN ~IsFinite(pB(r, 2))
       ELSE Mul(wB(r, 2), pB(r, 2)) = ExpectedWP2(r)

Untouched(r, c) == wB(r, c) = wPreB(r, c) /\ pB(r, c) = pPreB(r, c)

\* C4: no rollback.  When the G1 loop raises NegativeWeightError at row k the
\* depth-0 slots of all rows hold the source boundary, the depth-1 slots of the
\* rows before k hold their new values and those of the rows from k on are
\* unchanged; when the G2 loop raises at row k, G0 and G1 are applied to all
\* rows, the depth-2 slots of the rows before k hold their new values and those
\* of the rows from k on are unchanged.
C4_PartialMutation ==
    RaisedNegative =>
       /\ G0Applied
       /\ last.phase = "G1" =>
            \A r \in Rows(PreB, last.surface_edge) :
               IF r < last.row THEN RationalG1RowApplied(r) ELSE Untouched(r, 1)
       /\ last.phase = "G2" =>
            \A r \in Rows(PreB, last.surface_edge) :
               /\ RationalG1RowApplied(r)
               /\ IF r < last.row THEN RationalG2RowApplied(r) ELSE Untouched(r, 2)

\* a G1 raise at the last of three rows that changed the boundary and the
\* depth-1 slots of the rows before it
C4_Witness ==
    /\ RaisedNegative /\ last.phase = "G1" /\ last.row = 2
    /\ \A r \in 0 .. 1 : wB(r, 1) # wPreB(r, 1) /\ pB(r, 1) # pPreB(r, 1)
    /\ \E r \in 0 .. 2 : pB(r, 0) # pPreB(r, 0)

C4_WitnessG2 ==
    /\ RaisedNegative /\ last.phase = "G2" /\ last.row >= 1
    /\ \E r \in Rows(PreB, last.surface_edge) : wB(r, 1) # wPreB(r, 1)
    /\ wB(0, 2) # wPreB(0, 2) /\ pB(0, 2) # pPreB(0, 2)

\* C5: a precondition failure leaves the target untouched.  A call between
\* edges of different parallel degree, and a rational G1 / G2 call with an array
\* f of the wrong length, end in AssertionError, and after an AssertionError no
\* point and no weight of any patch differs from before the call.
C5_PreconditionNoWrite ==
    last.op \in EnforceOps =>
       /\ ~ParallelOk => last.outcome = "AssertionError"
       /\ IsRational(PreB) /\ ~FLengthOk => last.outcome = "AssertionError"
       /\ last.outcome = "AssertionError" =>
            /\ ~ParallelOk \/ (IsRational(PreB) /\ ~FLengthOk)
            /\ patch = last.pre

\* enforce_g0g1g2 between a 3-point edge and a 2-point edge
C5_Witness ==
    /\ last.op = "enforce_g0g1g2" /\ last.outcome = "AssertionError"
    /\ get_parallel_degree(PreB, last.surface_edge) = 2
    /\ get_parallel_degree(A, last.other_surface_edge) = 1
    /\ patch = last.pre

\* rational enforce_g0g1 with matching edges and an array f that is too short
C5_WitnessF ==
    /\ last.op = "enforce_g0g1" /\ last.outcome = "AssertionError"
    /\ ParallelOk /\ last.f.arr
    /\ Len(last.f.vals) < get_parallel_degree(PreB, last.surface_edge) + 1
    /\ \E r \in Rows(PreB, last.surface_edge) : pPreB(r, 0) # pA(r, 0)
    /\ patch = last.pre

NonNegative(x) == IsFinite(x) /\ x[1] >= 0

WeightsNonNegative(s) ==
    s.kind \in {"rational", "nurbs"} =>
       \A i \in DOMAIN s.weights : \A j \in DOMAIN s.weights[i] :
          NonNegative(s.weights[i][j])

\* C2: no weight is ever negative: after any sequence of constructor and
\* enforcement calls, calls that raised NegativeWeightError partway included,
\* every entry of the weight grid of every surface is >= 0.
C2_NoNegativeWeight ==
    /\ \A p \in PatchIds : WeightsNonNegative(patch[p])
    /\ WeightsNonNegative(nurbs)

\* a second call that raised in its G1 loop after changing weights of the
\* target, which an earlier call had already changed
C2_Witness ==
    /\ nCalls = 2 /\ RaisedNegative /\ last.phase = "G1" /\ last.row >= 1
    /\ wB(0, 1) # wPreB(0, 1)
    /\ \E p \in PatchIds :
         \E i \in 0 .. SeqN - 1, j \in 0 .. SeqN - 1 :
            /\ last.pre[p].weights[i][j] # Num(WeightValue(1, i, j))
            /\ last.pre[p].weights[i][j] # Num(WeightValue(2, i, j))

IsBezier(s) == s.kind = "bezier"

\* C6: BezierSurface.enforce_g0g1 completes whenever the parallel degrees match
\* and both patches have a second row, and then every row of the target has
\* P_B,0 = P_A,0 and P_B,1 = P_B,0 + f * (perp_degree_A / perp_degree_B) *
\* (P_A,0 - P_A,1).
C6_BezierG1Formula ==
    last.op \in G1Ops /\ IsBezier(PreB) =>
       /\ ParallelOk /\ PerpA >= 1 /\ PerpB >= 1 => last.outcome = "ok"
       /\ last.outcome = "ok" =>
            \A r \in Rows(B, last.surface_edge) :
               /\ pB(r, 0) = pA(r, 0)
               /\ pB(r, 1) = Add(pB(r, 0), Mul(Scale1(r), Sub(pA(r, 0), pA(r, 1))))

\* a completed polynomial enforce_g0g1 with f = 1/2 between patches of different
\* perpendicular degree that moved the target's second row
C6_Witness ==
    /\ last.op = "enforce_g0g1" /\ IsBezier(PreB) /\ last.outcome = "ok"
    /\ last.f.val = Frac(1, 2) /\ PerpA # PerpB
    /\ \A r \in Rows(B, last.surface_edge) :
         pB(r, 1) # pPreB(r, 1) /\ pB(r, 1) # pB(r, 0)

\* C7: in RationalBezierSurface.enforce_g0g1 that completes, every row has the
\* weight w_B,1 = w_B,0 + f_row * ratio * (w_A,0 - w_A,1) and the point
\* P_B,1 = (w_B,0 / w_B,1) * P_B,0
\*         + f_row * ratio / w_B,1 * (w_A,0 * P_A,0 - w_A,1 * P_A,1)
\* evaluated with the weight w_B,1 the call has just stored (a division by a
\* stored weight of zero gives a point that is not finite); f_row is f[i] in row
\* i when f is an array.
C7_RationalG1WeightFirst ==
    RationalG1Ran /\ last.op \in G1Ops =>
       /\ FirstNegative1 = -1 => last.outcome = "ok"
       /\ last.outcome = "ok" =>
            \A r \in Rows(B, last.surface_edge) :
               /\ wB(r, 1) = Add(wB(r, 0), Mul(Scale1(r), Sub(wA(r, 0), wA(r, 1))))
               /\ IF wB(r, 1) = Num(0)
                  THEN ~IsFinite(pB(r, 1))
                  ELSE pB(r, 1) =
                         Add(Mul(Div(wB(r, 0), wB(r, 1)), pB(r, 0)),
                             Mul(Div(Scale1(r), wB(r, 1)),
                                 Sub(Mul(wA(r, 0), pA(r, 0)), Mul(wA(r, 1), pA(r, 1)))))

\* a completed rational enforce_g0g1 with an array f whose entries differ, in
\* which some row got a weight that is neither zero nor the weight its slot held
\* before, which was not zero either
C7_Witness ==
    /\ last.op = "enforce_g0g1" /\ IsRational(PreB) /\ last.outcome = "ok"
    /\ last.f.arr /\ Len(last.f.vals) >= 2 /\ last.f.vals[1] # last.f.vals[2]
    /\ \E r \in Rows(B, last.surface_edge) :
         /\ r >= 1
         /\ wB(r, 1) # Num(0) /\ wPreB(r, 1) # Num(0) /\ wB(r, 1) # wPreB(r, 1)
         /\ pB(r, 1) # pPreB(r, 1)

\* x2 - 2 * x1 + x0
SecondDifference(x0, x1, x2) == Add(Sub(x2, Mul(Num(2), x1)), x0)

\* w * P of the target and of the source
wpB(r, c) == Mul(wB(r, c), pB(r, c))
wpA(r, c) == Mul(wA(r, c), pA(r, c))

\* the G0, G1 and G2 relations of row r between polynomial patches
BezierG2Relations(r) ==
    /\ pB(r, 0) = pA(r, 0)
    /\ Sub(pB(r, 1), pB(r, 0)) = Mul(Scale1(r), Sub(pA(r, 0), pA(r, 1)))
    /\ SecondDifference(pB(r, 0), pB(r, 1), pB(r, 2))
         = Mul(Scale2(r), SecondDifference(pA(r, 0), pA(r, 1), pA(r, 2)))

\* the same relations on the weights and on the weight-multiplied points
RationalG2Relations(r) ==
    /\ wB(r, 0) = wA(r, 0) /\ pB(r, 0) = pA(r, 0)
    /\ Sub(wB(r, 1), wB(r, 0)) = Mul(Scale1(r), Sub(wA(r, 0), wA(r, 1)))
    /\ Sub(wpB(r, 1), wpB(r, 0)) = Mul(Scale1(r), Sub(wpA(r, 0), wpA(r, 1)))
    /\ SecondDifference(wB(r, 0), wB(r, 1), wB(r, 2))
         = Mul(Scale2(r), SecondDifference(wA(r, 0), wA(r, 1), wA(r, 2)))
    /\ SecondDifference(wpB(r, 0), wpB(r, 1), wpB(r, 2))
         = Mul(Scale2(r), SecondDifference(wpA(r, 0), wpA(r, 1), wpA(r, 2)))

\* the call stored no weight of zero in the rows it solved
NoZeroWeightStored ==
    \A r \in Rows(B, last.surface_edge) : wB(r, 1) # Num(0) /\ wB(r, 2) # Num(0)

\* C8, as stated: after enforce_g0g1g2 completes every row satisfies the G0 and
\* G1 relations and the second-difference relation P_B,2 - 2 P_B,1 + P_B,0 =
\* f^2 * ((pA^2 - pA) / (pB^2 - pB)) * (P_A,0 - 2 P_A,1 + P_A,2), on rational
\* patches on the weights and on the weight-multiplied points.
C8_SecondDifference ==
    last.op \in G2Ops /\ last.outcome = "ok" =>
       \A r \in Rows(B, last.surface_edge) :
          IF IsRational(B) THEN RationalG2Relations(r) ELSE BezierG2Relations(r)

\* C8, what the code establishes: the relations hold on polynomial patches, and
\* on rational patches when no weight the call stored is zero.
C8_SecondDifferenceNonzero ==
    last.op \in G2Ops /\ last.outcome = "ok" =>
       /\ IsBezier(B) => \A r \in Rows(B, last.surface_edge) : BezierG2Relations(r)
       /\ IsRational(B) /\ NoZeroWeightStored =>
            \A r \in Rows(B, last.surface_edge) : RationalG2Relations(r)
       /\ IsRational(B) =>
            \A r \in Rows(B, last.surface_edge) :
               /\ wB(r, 1) = ExpectedW1(r) /\ wB(r, 2) = ExpectedW2(r)
               /\ (wB(r, 1) = Num(0) \/ wB(r, 2) = Num(0)) => ~IsFinite(pB(r, 2))

\* a completed rational enforce_g0g1g2 that stored positive weights only and
\* moved the third row of the target
C8_Witness ==
    /\ last.op = "enforce_g0g1g2" /\ IsRational(B) /\ last.outcome = "ok"
    /\ NoZeroWeightStored
    /\ \A r \in Rows(B, last.surface_edge) :
         wB(r, 2) # wPreB(r, 2) /\ pB(r, 2) # pPreB(r, 2)

\* a completed rational enforce_g0g1g2 that stored a weight of zero
C8_WitnessZero ==
    /\ last.op \in G2Ops /\ IsRational(B) /\ last.outcome = "ok"
    /\ ~NoZeroWeightStored

\* South and West are the edges at index 0 of their direction, North and East
\* those at the last index
NearEdges == {"South", "West"}

\* the difference across the edge of the two outermost control points of row r,
\* taken in the direction of increasing grid index
GridDifference(s, r, surface_edge) ==
    IF surface_edge \in NearEdges
    THEN Sub(get_point(s, r, 1, surface_edge), get_point(s, r, 0, surface_edge))
    ELSE Sub(get_point(s, r, 0, surface_edge), get_point(s, r, 1, surface_edge))

\* the control-point form of the cross-boundary derivative at the edge
CrossDerivative(s, r, surface_edge) ==
    Mul(Num(get_perpendicular_degree(s, surface_edge)),
        GridDifference(s, r, surface_edge))

NearFarPairing ==
    (last.surface_edge \in NearEdges) # (last.other_surface_edge \in NearEdges)

\* C9: after enforce_c0c1 on a polynomial patch B against A with equal
\* perpendicular degrees, for every pairing of a near edge of one with a far
\* edge of the other, n_B * (B's difference in grid order) equals
\* n_A * (A's difference in grid order) in every row.
C9_TangentEquality ==
    (/\ last.op = "enforce_c0c1" /\ IsBezier(PreB) /\ last.outcome = "ok"
     /\ PerpA = PerpB /\ NearFarPairing)
    => \A r \in Rows(B, last.surface_edge) :
          CrossDerivative(B, r, last.surface_edge)
            = CrossDerivative(A, r, last.other_surface_edge)

\* such a call, West of the target against East of the source, that changed
\* the cross-boundary differences of the target, none of which is zero
C9_Witness ==
    /\ last.op = "enforce_c0c1" /\ IsBezier(PreB) /\ last.outcome = "ok"
    /\ PerpA = PerpB /\ PerpB = 2
    /\ last.surface_edge = "West" /\ last.other_surface_edge = "East"
    /\ \A r \in Rows(B, last.surface_edge) :
         /\ GridDifference(B, r, "West") # GridDifference(PreB, r, "West")
         /\ GridDifference(B, r, "West") # Num(0)

\* the same with a far edge of the target against a near edge of the source
C9_WitnessFarNear ==
    /\ last.op = "enforce_c0c1" /\ IsBezier(PreB) /\ last.outcome = "ok"
    /\ PerpA = PerpB
    /\ last.surface_edge = "North" /\ last.other_surface_edge = "West"
    /\ \A r \in Rows(B, last.surface_edge) :
         GridDifference(B, r, "North") # GridDifference(PreB, r, "North")

\* some entry of the grid is below zero
SomeEntryNegative(weights) ==
    \E i \in DOMAIN weights : \E j \in DOMAIN weights[i] :
       weights[i][j][2] # 0 /\ weights[i][j][1] < 0

\* C10: the constructor of RationalBezierSurface, and that of NURBSSurface when
\* its knot vectors have the right lengths, raises NegativeWeightError exactly
\* when the weight grid has a negative entry, and then no surface object
\* exists; otherwise the object holds the grid it was given.
C10_ConstructorRejectsNegative ==
    /\ last.op = "RationalBezierSurface" =>
         IF SomeEntryNegative(last.arg)
         THEN last.outcome = "NegativeWeightError" /\ patch[last.tgt] = NoPatch
         ELSE /\ last.outcome = "ok"
              /\ IsRational(patch[last.tgt]) /\ patch[last.tgt].weights = last.arg
    /\ (/\ last.op = "NURBSSurface"
        /\ KnotLengthsOk(last.arg.control_points, last.arg.knots_u, last.arg.knots_v,
                         last.arg.degree_u, last.arg.degree_v)) =>
         IF SomeEntryNegative(last.arg.weights)
         THEN last.outcome = "NegativeWeightError" /\ nurbs = NoPatch
         ELSE /\ last.outcome = "ok"
              /\ nurbs.kind = "nurbs" /\ nurbs.weights = last.arg.weights

\* a rational Bezier constructor call that raised on a 3 x 3 grid whose only
\* negative entry is the last one
C10_Witness ==
    /\ last.op = "RationalBezierSurface" /\ last.outcome = "NegativeWeightError"
    /\ DOMAIN last.arg = 0 .. 2 /\ DOMAIN last.arg[0] = 0 .. 2
    /\ last.arg[2][2] = Num(-1)
    /\ \A i \in 0 .. 2, j \in 0 .. 2 : <<i, j>> # <<2, 2>> => last.arg[i][j][1] >= 0

\* a NURBS constructor call that raised on a negative entry outside the first row
C10_WitnessNURBS ==
    /\ last.op = "NURBSSurface" /\ last.outcome = "NegativeWeightError"
    /\ \E i \in DOMAIN last.arg.weights : i >= 1 /\ last.arg.weights[i][0] = Num(-1)

\* a constructor call given a grid with an entry of zero and none negative
C10_WitnessZero ==
    /\ last.op \in {"RationalBezierSurface", "NURBSSurface"} /\ last.outcome = "ok"
    /\ LET w == IF last.op = "NURBSSurface" THEN nurbs.weights
                ELSE patch[last.tgt].weights
       IN  \E i \in DOMAIN w : \E j \in DOMAIN w[i] : w[i][j] = Num(0)

(***************************************************************************)
(* Addressing                                                              *)
(***************************************************************************)
\* the surface the last accessor call was made on, after and before the call
S == patch[1]
PreS == last.pre[1]

PointAccessors == {"get_point", "set_point"}
WeightAccessors == {"get_weight", "set_weight"}

\* the grid slot the addressing scheme gives (row_index, continuity_index, edge)
AddressedSlot(s, row_index, continuity_index, surface_edge) ==
    CASE surface_edge = "South" -> <<row_index, continuity_index>>
      [] surface_edge = "North" -> <<row_index, s.Nv - 1 - continuity_index>>
      [] surface_edge = "West"  -> <<continuity_index, row_index>>
      [] surface_edge = "East"  -> <<s.Nu - 1 - continuity_index, row_index>>

\* the last call addressed a slot of the grid through one of the four edges
AddressedInGrid ==
    /\ last.op \in PointAccessors \cup WeightAccessors
    /\ last.surface_edge \in SurfaceEdge
    /\ last.arg.row_index \in 0 .. get_parallel_degree(PreS, last.surface_edge)
    /\ last.arg.continuity_index
         \in 0 .. get_perpendicular_degree(PreS, last.surface_edge)

LastSlot ==
    AddressedSlot(PreS, last.arg.row_index, last.arg.continuity_index, last.surface_edge)

\* grid g2 is grid g1 with val in slot ij and nothing else changed
OnlySlotSet(g1, g2, ij, val) ==
    /\ DOMAIN g2 = DOMAIN g1
    /\ \A i \in DOMAIN g1 :
         /\ DOMAIN g2[i] = DOMAIN g1[i]
         /\ \A j \in DOMAIN g1[i] :
              g2[i][j] = IF <<i, j>> = ij THEN val ELSE g1[i][j]

\* C11: South addresses [row_index][continuity_index], North
\* [row_index][Nv-1-continuity_index], West [continuity_index][row_index] and
\* East [Nu-1-continuity_index][row_index]; the getters return the value of
\* that slot and change nothing, the setters change that slot of their grid
\* and nothing else, and a get after the set returns the value set.
C11_EdgeAddressing ==
    AddressedInGrid =>
       /\ last.outcome = "ok"
       /\ last.op = "get_point" =>
            S = PreS /\ last.arg.ret = PreS.points[LastSlot[1]][LastSlot[2]]
       /\ last.op = "get_weight" =>
            S = PreS /\ last.arg.ret = PreS.weights[LastSlot[1]][LastSlot[2]]
       /\ last.op = "set_point" =>
            /\ OnlySlotSet(PreS.points, S.points, LastSlot, last.arg.value)
            /\ S.weights = PreS.weights
            /\ get_point(S, last.arg.row_index, last.arg.continuity_index,
                         last.surface_edge) = last.arg.value
       /\ last.op = "set_weight" =>
            /\ OnlySlotSet(PreS.weights, S.weights, LastSlot, last.arg.value)
            /\ S.points = PreS.points
            /\ get_weight(S, last.arg.row_index, last.arg.continuity_index,
                          last.surface_edge) = last.arg.value

\* set_weight through the East edge of a 3 x 2 grid at row 1, depth 2: the
\* slot [0][1] changed
C11_Witness ==
    /\ last.op = "set_weight" /\ last.outcome = "ok"
    /\ last.surface_edge = "East" /\ S.Nu = 3 /\ S.Nv = 2
    /\ last.arg.row_index = 1 /\ last.arg.continuity_index = 2
    /\ S.weights[0][1] = NewValue /\ PreS.weights[0][1] # NewValue

\* get_point through the North edge of a 2 x 3 grid at depth 1
C11_WitnessGet ==
    /\ last.op = "get_point" /\ last.outcome = "ok"
    /\ last.surface_edge = "North" /\ S.Nu = 2 /\ S.Nv = 3
    /\ last.arg.row_index = 1 /\ last.arg.continuity_index = 1
    /\ last.arg.ret = S.points[1][1] /\ last.arg.ret # S.points[1][2]

EdgeAddressedOps ==
    PointAccessors \cup WeightAccessors
      \cup {"get_parallel_degree", "get_perpendicular_degree", "get_edge"}

\* the last call was handed a value that is no edge (no corner)
UnrecognizedSelector ==
    \/ last.op \in EdgeAddressedOps /\ last.surface_edge \notin SurfaceEdge
    \/ last.op = "get_corner_index" /\ last.surface_edge \notin SurfaceCorner

\* C12, as stated: every edge- or corner-addressed operation called with a
\* value that is no member of SurfaceEdge (SurfaceCorner) ends in an error,
\* returns nothing and changes no grid.
C12_UnrecognizedFails ==
    UnrecognizedSelector =>
       /\ last.outcome # "ok" /\ last.arg.ret = NoReturn
       /\ patch = last.pre

\* C12, what the code does: get_parallel_degree and get_perpendicular_degree
\* answer an unrecognized value as they answer East and West; all the other
\* operations raise ValueError and change nothing.
C12_UnrecognizedFailsButDegrees ==
    UnrecognizedSelector =>
       /\ patch = last.pre
       /\ IF last.op = "get_parallel_degree"
          THEN last.outcome = "ok" /\ last.arg.ret = PreS.Nv - 1
          ELSE IF last.op = "get_perpendicular_degree"
          THEN last.outcome = "ok" /\ last.arg.ret = PreS.Nu - 1
          ELSE last.outcome = "ValueError" /\ last.arg.ret = NoReturn

\* get_parallel_degree answered an unrecognized value with degree_v, which is
\* not the parallel degree of North and South
C12_Witness ==
    /\ last.op = "get_parallel_degree" /\ last.surface_edge = "Invalid"
    /\ last.outcome = "ok" /\ last.arg.ret = PreS.Nv - 1 /\ PreS.Nv # PreS.Nu

\* set_weight raised ValueError on an unrecognized value
C12_WitnessSet ==
    /\ last.op = "set_weight" /\ last.surface_edge = "Invalid"
    /\ last.outcome = "ValueError" /\ S = PreS

(***************************************************************************)
(* Evaluation                                                              *)
(***************************************************************************)
\* the last call evaluated the Bezier or rational Bezier surface at a corner
\* of the parameter square
EvaluatedAtCorner ==
    /\ last.op = "evaluate_ndarray" /\ last.tgt = 1
    /\ last.arg.u \in {Num(0), Num(1)} /\ last.arg.v \in {Num(0), Num(1)}

\* the grid slot of that corner: u = 0 is index 0 and u = 1 index Nu - 1 of
\* the first direction, v likewise of the second
CornerSlot ==
    <<IF last.arg.u = Num(0) THEN 0 ELSE PreS.Nu - 1,
      IF last.arg.v = Num(0) THEN 0 ELSE PreS.Nv - 1>>

\* C13: evaluate_ndarray at (0,0), (1,0), (0,1), (1,1) returns the control
\* point at [0][0], [Nu-1][0], [0][Nv-1], [Nu-1][Nv-1], whatever the other
\* control points and weights are; on a rational surface when the weight of
\* that corner is positive.
C13_CornerInterpolation ==
    (/\ EvaluatedAtCorner
     /\ IsRational(PreS) =>
          IsFinite(PreS.weights[CornerSlot[1]][CornerSlot[2]])
            /\ PreS.weights[CornerSlot[1]][CornerSlot[2]][1] > 0)
    => last.arg.ret = PreS.points[CornerSlot[1]][CornerSlot[2]]

\* a rational 3 x 2 surface evaluated at (1, 0): the point [2][0], which is
\* none of the other corner points
C13_Witness ==
    /\ EvaluatedAtCorner /\ IsRational(PreS) /\ PreS.Nu = 3 /\ PreS.Nv = 2
    /\ last.arg.u = Num(1) /\ last.arg.v = Num(0)
    /\ last.arg.ret = PreS.points[2][0]
    /\ last.arg.ret \notin {PreS.points[0][0], PreS.points[0][1], PreS.points[2][1]}
    /\ \E i \in 0 .. 2, j \in 0 .. 1 : PreS.weights[i][j] \notin {Num(0), Num(1)}

\* a polynomial 2 x 3 surface evaluated at (0, 1): the point [0][2]
C13_WitnessBezier ==
    /\ EvaluatedAtCorner /\ IsBezier(PreS) /\ PreS.Nu = 2 /\ PreS.Nv = 3
    /\ last.arg.u = Num(0) /\ last.arg.v = Num(1)
    /\ last.arg.ret = PreS.points[0][2] /\ last.arg.ret # PreS.points[1][0]

(***************************************************************************)
(* B-spline basis                                                          *)
(***************************************************************************)
\* the last call was _basis_functions at a parameter strictly inside the
\* knot range
BasisInside ==
    /\ last.op = "_basis_functions"
    /\ Less(last.arg.knot_vector[1], last.arg.t)
    /\ Less(last.arg.t, last.arg.knot_vector[Len(last.arg.knot_vector)])

\* C15: on a clamped knot vector, for every degree 1 .. 5, the Cox-de Boor
\* values of the N control points at a parameter strictly inside the knot
\* range sum to one, also when the parameter is an interior knot, repeated or
\* not.
C15_PartitionOfUnity ==
    BasisInside => SumFirst(last.arg.ret, last.arg.n) = Num(1)

\* degree 3 at t = 1/2, a knot repeated twice, with three values that are not
\* zero
C15_Witness ==
    /\ BasisInside /\ last.arg.p = 3 /\ last.arg.t = Frac(1, 2)
    /\ Cardinality({k \in 1 .. Len(last.arg.knot_vector) :
                      last.arg.knot_vector[k] = Frac(1, 2)}) = 2
    /\ Cardinality({k \in 1 .. last.arg.n : last.arg.ret[k] # Num(0)}) >= 2

\* degree 5 at a parameter that is no knot
C15_WitnessOffKnot ==
    /\ BasisInside /\ last.arg.p = 5 /\ last.arg.t = Frac(1, 4)
    /\ Len(last.arg.knot_vector) = 15
    /\ Cardinality({k \in 1 .. last.arg.n : last.arg.ret[k] # Num(0)}) = 6

AllWeightsOne(s) ==
    \A i \in DOMAIN s.weights : \A j \in DOMAIN s.weights[i] : s.weights[i][j] = Num(1)

\* the knot vector of n control points is n zeros followed by n ones
BezierClamped(knot_vector, n) ==
    /\ Len(knot_vector) = 2 * n
    /\ \A k \in 1 .. 2 * n : knot_vector[k] = IF k <= n THEN Num(0) ELSE Num(1)

\* the surface the last evaluate_ndarray call was made on
Evaluated == IF last.tgt = 0 THEN nurbs ELSE PreS

\* the last call evaluated a rational surface whose weights are all 1, or a
\* NURBS surface whose weights are all 1 on Bezier-clamped knots of full degree
EvaluatedUnitWeights ==
    /\ last.op = "evaluate_ndarray" /\ Evaluated.kind \in {"rational", "nurbs"}
    /\ AllWeightsOne(Evaluated)
    /\ Evaluated.kind = "nurbs" =>
         /\ BezierClamped(Evaluated.knots_u, Evaluated.Nu)
         /\ BezierClamped(Evaluated.knots_v, Evaluated.Nv)
         /\ Evaluated.degree_u = Evaluated.Nu - 1
         /\ Evaluated.degree_v = Evaluated.Nv - 1

\* C14: a rational surface, and a NURBS surface on Bezier-clamped knots, whose
\* weights are all 1 evaluates at (u, v) to the point the polynomial surface
\* on the same control net evaluates to; the denominator summed over the whole
\* grid is 1.
C14_UnitWeightsArePolynomial ==
    EvaluatedUnitWeights =>
       /\ last.arg.ret = BezierEvaluate(BezierSurface(Evaluated.points),
                                        last.arg.u, last.arg.v)
       /\ IsFinite(last.arg.ret)
       /\ Evaluated.kind = "rational" =>
            RationalDenominator(Evaluated, last.arg.u, last.arg.v) = Num(1)
       /\ Evaluated.kind = "nurbs" =>
            NURBSDenominator(Evaluated,
               basis_functions(last.arg.u, Evaluated.degree_u, Evaluated.knots_u,
                               Evaluated.Nu),
               basis_functions(last.arg.v, Evaluated.degree_v, Evaluated.knots_v,
                               Evaluated.Nv)) = Num(1)

\* a 3 x 3 rational surface with weights 1 evaluated at (1/2, 1/2), where
\* every control point counts
C14_Witness ==
    /\ EvaluatedUnitWeights /\ Evaluated.kind = "rational"
    /\ Evaluated.Nu = 3 /\ Evaluated.Nv = 3
    /\ last.arg.u = Frac(1, 2) /\ last.arg.v = Frac(1, 2)
    /\ \A i \in 0 .. 2, j \in 0 .. 2 : last.arg.ret # Evaluated.points[i][j]

\* the same on a NURBS surface
C14_WitnessNURBS ==
    /\ EvaluatedUnitWeights /\ Evaluated.kind = "nurbs"
    /\ Evaluated.Nu = 3 /\ Evaluated.Nv = 2
    /\ last.arg.u = Frac(1, 2) /\ last.arg.v = Num(1)
    /\ \A i \in 0 .. 2, j \in 0 .. 1 : last.arg.ret # Evaluated.points[i][j]

(***************************************************************************)
(* from_bezier_revolve                                                     *)
(***************************************************************************)
Revolved == last.op = "from_bezier_revolve"
RevolvedRational == Revolved /\ last.tgt = 1
RevolvedNURBS == Revolved /\ last.tgt = 0

\* the surface the last from_bezier_revolve call returned, NoPatch if none
RevolvedSurface == IF last.tgt = 1 THEN patch[1] ELSE nurbs

\* the angular span D of the last call and the number of samples it made
Span == AbsF(Sub(last.arg.end_angle, last.arg.start_angle))
SampleCount == Cardinality(DOMAIN last.arg.angles)

MaxQuarterTurns == 8

\* n is the count the specification gives for the span D: with k right angles
\* in D, 2k + 1 when D is k right angles exactly and 2k + 3 otherwise
IsSpecifiedCount(n) ==
    \E k \in 0 .. MaxQuarterTurns :
       /\ LessEq(Num(90 * k), Span) /\ Less(Span, Num(90 * (k + 1)))
       /\ n = IF Span = Num(90 * k) THEN 2 * k + 1 ELSE 2 * k + 3

\* C16: RationalBezierSurface.from_bezier_revolve over a span D > 0 makes
\* 2 floor(D / 90) + 1 angle samples when D is a multiple of 90 degrees and
\* 2 floor(D / 90) + 3 otherwise; the count is odd and at least 3, the first
\* sample is the start angle and the last the end angle, and two consecutive
\* even-indexed samples are at most 90 degrees apart.  The surface returned
\* has one column of control points per sample.
C16_AngleSamples ==
    (RevolvedRational /\ Span # Num(0)) =>
       /\ last.outcome = "ok"
       /\ IsSpecifiedCount(SampleCount)
       /\ SampleCount % 2 = 1 /\ SampleCount >= 3
       /\ last.arg.angles[0] = last.arg.start_angle
       /\ last.arg.angles[SampleCount - 1] = last.arg.end_angle
       /\ \A idx \in 0 .. SampleCount - 3 :
            idx % 2 = 0 =>
              LessEq(AbsF(Sub(last.arg.angles[idx + 2], last.arg.angles[idx])),
                     RightAngle)
       /\ patch[1].Nv = SampleCount

\* a span of 225 degrees, no multiple of 90: seven samples
C16_Witness ==
    /\ RevolvedRational /\ last.outcome = "ok"
    /\ last.arg.start_angle = Num(0) /\ last.arg.end_angle = Num(225)
    /\ SampleCount = 7

\* a span of 180 degrees run backwards: five samples, arcs of 90 degrees
C16_WitnessMultiple ==
    /\ RevolvedRational /\ last.outcome = "ok"
    /\ last.arg.start_angle = Num(225) /\ last.arg.end_angle = Num(45)
    /\ SampleCount = 5
    /\ last.arg.angles[2] = Num(135)

\* the rows of the profile whose control point lies on the axis
OnAxisRows ==
    {i \in DOMAIN last.arg.bezier : last.arg.bezier[i].radius = Num(0)}

\* every copy of an on-axis control point is the control point itself
OnAxisCopiesCoincide ==
    \A i \in OnAxisRows : \A idx \in DOMAIN last.arg.angles :
       RevolvedSurface.points[i][idx] = last.arg.bezier[i]

\* C17 as stated: in both builders every copy of a profile control point on
\* the axis, at even and odd sample indices alike, is the original point
\* and carries weight 1.0.
C17_OnAxisWeightOne ==
    (Revolved /\ last.outcome = "ok") =>
       /\ OnAxisCopiesCoincide
       /\ \A i \in OnAxisRows : \A idx \in DOMAIN last.arg.angles :
            RevolvedSurface.weights[i][idx] = Num(1)

\* C17 as the code has it: every copy of an on-axis control point is the
\* original point; the copies at even sample indices carry weight 1.0 and the
\* copies at odd sample indices carry the weight sin(90 - half angle) of their
\* column, the half angle taken between the two bracketing samples, which is
\* not 1.0.
C17_OnAxisColumnWeight ==
    (Revolved /\ last.outcome = "ok") =>
       /\ OnAxisCopiesCoincide
       /\ \A i \in OnAxisRows : \A idx \in DOMAIN last.arg.angles :
            /\ idx % 2 = 0 => RevolvedSurface.weights[i][idx] = Num(1)
            /\ idx % 2 = 1 =>
                 /\ RevolvedSurface.weights[i][idx] =
                       Sin(Sub(RightAngle,
                               Mul(Frac(1, 2), Sub(last.arg.angles[idx + 1],
                                                   last.arg.angles[idx - 1]))))
                 /\ RevolvedSurface.weights[i][idx] # Num(1)
                 /\ \A k \in DOMAIN last.arg.bezier :
                      RevolvedSurface.weights[k][idx] = RevolvedSurface.weights[i][idx]

\* a profile of an on-axis and an off-axis point revolved by the rational
\* builder through 90 degrees: the middle copy of the first is not moved
C17_Witness ==
    /\ RevolvedRational /\ last.outcome = "ok"
    /\ Cardinality(DOMAIN last.arg.bezier) = 2
    /\ OnAxisRows = {0}
    /\ last.arg.start_angle = Num(0) /\ last.arg.end_angle = Num(90)
    /\ patch[1].points[0][1] = last.arg.bezier[0]
    /\ patch[1].points[1][1] # last.arg.bezier[1]
    /\ patch[1].weights[0][1] = <<1, 1, Num(45)>>

\* the same by the NURBS builder through 180 degrees
C17_WitnessNURBS ==
    /\ RevolvedNURBS /\ last.outcome = "ok"
    /\ OnAxisRows = {1}
    /\ last.arg.start_angle = Num(0) /\ last.arg.end_angle = Num(180)
    /\ nurbs.points[1][3] = last.arg.bezier[1]
    /\ nurbs.weights[1][3] = <<1, 1, Num(45)>>

\* C18: from_bezier_revolve of either class, called with the start angle equal
\* to the end angle, raises InvalidGeometryError while it determines the
\* angles, before it has gone through any profile point, and no surface is
\* made.
C18_EqualAnglesRefused ==
    (Revolved /\ last.arg.start_angle = last.arg.end_angle) =>
       /\ last.outcome = "InvalidGeometryError"
       /\ last.phase = "angles" /\ last.row = 0
       /\ last.arg.angles = <<>>
       /\ patch[1] = NoPatch /\ nurbs = NoPatch

C18_Witness ==
    /\ RevolvedRational /\ last.outcome = "InvalidGeometryError"
    /\ last.arg.start_angle = Num(90) /\ last.arg.end_angle = Num(90)
    /\ Cardinality(DOMAIN last.arg.bezier) = 2

C18_WitnessNURBS ==
    /\ RevolvedNURBS /\ last.outcome = "InvalidGeometryError"
    /\ last.arg.start_angle = Num(90) /\ last.arg.end_angle = Num(90)
    /\ Cardinality(DOMAIN last.arg.bezier) = 2

(***************************************************************************)
(* Knot vectors                                                            *)
(***************************************************************************)
\* len(knots_u) == Nu + degree_u + 1 and len(knots_v) == Nv + degree_v + 1
KnotInvariant(s) ==
    /\ Len(s.knots_u) = s.Nu + s.degree_u + 1
    /\ Len(s.knots_v) = s.Nv + s.degree_v + 1

\* n zeros followed by n ones
ZerosThenOnes(knot_vector, n) ==
    /\ Len(knot_vector) = 2 * n
    /\ \A k \in 1 .. n : knot_vector[k] = Num(0) /\ knot_vector[n + k] = Num(1)

\* the arguments of the last NURBSSurface(...) call break the invariant
NURBSArgumentsBreakInvariant ==
    /\ last.op = "NURBSSurface"
    /\ \/ Len(last.arg.knots_u)
            # Cardinality(DOMAIN last.arg.control_points) + last.arg.degree_u + 1
       \/ Len(last.arg.knots_v)
            # Cardinality(DOMAIN last.arg.control_points[0]) + last.arg.degree_v + 1

\* C19: every surface that carries knots has len(knots_u) = Nu + degree_u + 1
\* and len(knots_v) = Nv + degree_v + 1.  NURBSSurface(...) with arguments
\* that break this fails an assertion and makes no object; a rational Bezier
\* surface has Nu zeros followed by Nu ones with degree Nu - 1 in u, and Nv
\* zeros followed by Nv ones with degree Nv - 1 in v.
C19_KnotLengths ==
    /\ \A p \in PatchIds :
         patch[p].kind = "rational" =>
            /\ KnotInvariant(patch[p])
            /\ ZerosThenOnes(patch[p].knots_u, patch[p].Nu)
            /\ ZerosThenOnes(patch[p].knots_v, patch[p].Nv)
            /\ patch[p].degree_u = patch[p].Nu - 1
            /\ patch[p].degree_v = patch[p].Nv - 1
    /\ nurbs # NoPatch => KnotInvariant(nurbs)
    /\ NURBSArgumentsBreakInvariant =>
         last.outcome = "AssertionError" /\ nurbs = NoPatch

\* a NURBS constructor call whose knots_v alone is one knot too long
C19_Witness ==
    /\ NURBSArgumentsBreakInvariant /\ last.outcome = "AssertionError"
    /\ Len(last.arg.knots_u)
          = Cardinality(DOMAIN last.arg.control_points) + last.arg.degree_u + 1
    /\ last.arg.degree_v = 1
    /\ ~HasNegativeWeight(last.arg.weights)

\* a rational Bezier surface that an enforcement call has changed, and a NURBS
\* surface of degree lower than its control net allows
C19_WitnessRational ==
    /\ last.op \in EnforceOps /\ last.outcome = "ok"
    /\ IsRational(B) /\ B # PreB /\ B.Nu = 3 /\ B.Nv = 2

C19_WitnessNURBS ==
    /\ nurbs # NoPatch /\ nurbs.Nu = 3 /\ nurbs.degree_u = 1
    /\ Len(nurbs.knots_u) = 5

(***************************************************************************)
(* What a call changes                                                     *)
(***************************************************************************)
\* the largest continuity index the last enforcement call may write at
EnforcedDepth ==
    IF last.op \in G0Ops THEN 0 ELSE IF last.op \in G1Ops THEN 1 ELSE 2

\* the slots of the target with continuity index 0 .. EnforcedDepth relative
\* to the edge of the last enforcement call
EnforcedSlots ==
    {AddressedSlot(PreB, row_index, continuity_index, last.surface_edge) :
       row_index \in 0 .. get_parallel_degree(PreB, last.surface_edge),
       continuity_index \in 0 .. EnforcedDepth}

\* slot ij of the target is as it was before the last call
SlotUnchanged(ij) ==
    /\ B.points[ij[1]][ij[2]] = PreB.points[ij[1]][ij[2]]
    /\ IsRational(PreB) => B.weights[ij[1]][ij[2]] = PreB.weights[ij[1]][ij[2]]

\* the methods that evaluate, differentiate, read and verify
ReadingOps ==
    {"evaluate_ndarray", "dSdu", "dSdv", "d2Sdu2", "d2Sdv2",
     "compute_first_derivative_u", "compute_first_derivative_v",
     "compute_second_derivative_u", "compute_second_derivative_v",
     "get_edge", "get_first_derivs_along_edge", "get_second_derivs_along_edge",
     "get_point", "get_weight", "get_parallel_degree", "get_perpendicular_degree",
     "get_corner_index", "verify_g0", "verify_g1", "verify_g2"}

C20_WitnessG2 ==
    /\ last.op = "enforce_g0g1g2" /\ last.outcome = "ok" /\ last.surface_edge = "North"
    /\ IsBezier(B) /\ B.Nu = FrameN /\ B.Nv = FrameN
    /\ \A i \in 0 .. FrameN - 1 : \A j \in FrameN - 3 .. FrameN - 1 :
         ~SlotUnchanged(<<i, j>>)

\* enforce_g0g1g2 raised on a target of two columns after it wrote both
C20_WitnessRaised ==
    /\ last.op = "enforce_g0g1g2" /\ last.outcome = "IndexError"
    /\ B.Nu = 2 /\ ~SlotUnchanged(<<0, 0>>) /\ ~SlotUnchanged(<<1, 0>>)

\* verify_g1 failed between two surfaces; compute_second_derivative_u returned
\* a number
C20_WitnessVerify ==
    /\ last.op = "verify_g1" /\ last.outcome = "AssertionError"
    /\ patch[1].Nu = FrameN /\ patch[2].Nv = FrameN

C20_WitnessVerified ==
    /\ last.op \in {"verify_g0", "verify_g1", "verify_g2"} /\ last.outcome = "ok"

C20_WitnessDerivative ==
    /\ last.op = "compute_second_derivative_u" /\ IsFinite(last.arg.ret)
    /\ last.arg.ret # Num(0) /\ last.arg.u = Frac(1, 2) /\ patch[1].Nu = FrameN

(***************************************************************************)
(* Termination and knot reads of the Cox-de Boor recursion                 *)
(***************************************************************************)
CoxCalled == last.op = "_cox_de_boor"

\* C21: _cox_de_boor(t, i, p, knots) for i in 0 .. N - 1 and p >= 0 on a knot
\* vector of length N + p + 1 returns: every recursive call lowers p by exactly
\* one, the recursion is at most p deep, and every knot index read lies inside
\* the knot vector.
C21_CoxDeBoorTerminates ==
    CoxCalled =>
        /\ last.outcome = "ok"
        /\ last.arg.run.depth <= last.arg.p
        /\ \A d \in last.arg.run.degrees : d[2] = d[1] - 1 /\ d[2] >= 0
        /\ last.arg.run.reads \subseteq 0 .. Len(last.arg.knot_vector) - 1
        /\ IsFinite(last.arg.ret)

\* the last basis function of degree 3: the recursion reaches degree 0 and
\* reads the last knot
C21_Witness ==
    /\ CoxCalled /\ last.arg.p = 3 /\ last.arg.i = last.arg.n - 1
    /\ last.arg.run.depth = 3
    /\ Len(last.arg.knot_vector) - 1 \in last.arg.run.reads
    /\ last.arg.run.degrees = {<<3, 2>>, <<2, 1>>, <<1, 0>>}

(***************************************************************************)
(* Corner indices                                                          *)
(***************************************************************************)
CornerAsked == last.op = "get_corner_index" /\ last.outcome = "ok"

\* the parameter pair at which the surface takes the corner: South is v = 0,
\* North v = 1, West u = 0, East u = 1
CornerParams(surface_corner) ==
    <<IF surface_corner \in {"Northeast", "Southeast"} THEN Num(1) ELSE Num(0),
      IF surface_corner \in {"Northeast", "Northwest"} THEN Num(1) ELSE Num(0)>>

\* the index pair of the corner the claim names
CornerIndex(s, surface_corner) ==
    <<IF surface_corner \in {"Northeast", "Southeast"} THEN degree_u(s) ELSE 0,
      IF surface_corner \in {"Northeast", "Northwest"} THEN degree_v(s) ELSE 0>>

\* C22: get_corner_index maps Southwest to (0, 0), Southeast to (degree_u, 0),
\* Northwest to (0, degree_v) and Northeast to (degree_u, degree_v), the
\* control points the surface takes at (0,0), (1,0), (0,1) and (1,1).
C22_CornerIndices ==
    CornerAsked =>
        /\ last.arg.ret = CornerIndex(PreS, last.surface_edge)
        /\ RationalEvaluate(PreS, CornerParams(last.surface_edge)[1],
                            CornerParams(last.surface_edge)[2])
             \in {PreS.points[last.arg.ret[1]][last.arg.ret[2]], NaN}

\* the three corners other than Southeast are mapped as stated
C22_CornerIndicesButSoutheast ==
    CornerAsked /\ last.surface_edge # "Southeast" =>
        last.arg.ret = CornerIndex(PreS, last.surface_edge)

\* Southeast of a 2 x 3 surface is answered (1, 1), a control point of the
\* middle column, not the corner (1, 0)
C22_Witness ==
    /\ CornerAsked /\ last.surface_edge = "Southeast"
    /\ PreS.Nu = 2 /\ PreS.Nv = 3
    /\ last.arg.ret = <<1, 1>>

\* Northwest of a 3 x 2 surface is answered (0, 1)
C22_WitnessNorthwest ==
    /\ CornerAsked /\ last.surface_edge = "Northwest"
    /\ PreS.Nu = 3 /\ PreS.Nv = 2
    /\ last.arg.ret = <<0, 1>>

(***************************************************************************)
(* Degree 0: which span owns a parameter                                   *)
(***************************************************************************)
\* the last call was _cox_de_boor of degree 0
CoxDegreeZero == CoxCalled /\ last.arg.p = 0

\* knot i of the last call, counted from 0
Knot(i) == last.arg.knot_vector[i + 1]

SpanIndices == 0 .. Len(last.arg.knot_vector) - 2

NonDegenerate == {i \in SpanIndices : Knot(i) # Knot(i + 1)}

\* the indices whose degree-0 basis function is 1 at the parameter of the
\* last call
Owners == {i \in SpanIndices :
             cox_de_boor(last.arg.t, i, 0, last.arg.knot_vector) = Num(1)}

\* the spans the claim gives the parameter to
OwningSpans ==
    {i \in NonDegenerate :
        \/ LessEq(Knot(i), last.arg.t) /\ Less(last.arg.t, Knot(i + 1))
        \/ /\ last.arg.t = Knot(Len(last.arg.knot_vector) - 1)
           /\ \A k \in NonDegenerate : k <= i}

InKnotRange ==
    /\ LessEq(Knot(0), last.arg.t)
    /\ LessEq(last.arg.t, Knot(Len(last.arg.knot_vector) - 1))

\* C23: at degree 0, a parameter in [first knot, last knot] has exactly one
\* index with value 1, the non-degenerate span [knot_i, knot_i+1) that holds
\* it, the last knot going to the last non-degenerate span; a degenerate span
\* always gives 0, and outside the knot range every index gives 0.
C23_DegreeZeroOwnership ==
    CoxDegreeZero =>
        /\ Owners = OwningSpans
        /\ InKnotRange => Cardinality(Owners) = 1
        /\ ~InKnotRange => Owners = {}
        /\ \A i \in SpanIndices :
              cox_de_boor(last.arg.t, i, 0, last.arg.knot_vector) \in {Num(0), Num(1)}
        /\ last.arg.ret = IF last.arg.i \in Owners THEN Num(1) ELSE Num(0)
        /\ last.arg.i \notin NonDegenerate => last.arg.ret = Num(0)

\* the last knot, repeated, is given to the last non-degenerate span, which
\* is not the last span
C23_Witness ==
    /\ CoxDegreeZero /\ last.arg.t = Knot(Len(last.arg.knot_vector) - 1)
    /\ last.arg.ret = Num(1)
    /\ last.arg.i < Len(last.arg.knot_vector) - 2
    /\ Cardinality(NonDegenerate) >= 2

\* a parameter on a repeated interior knot is given to the span that starts
\* there, past the degenerate span
C23_WitnessRepeated ==
    /\ CoxDegreeZero /\ last.arg.ret = Num(1)
    /\ last.arg.t = Knot(last.arg.i) /\ last.arg.i >= 2
    /\ Knot(last.arg.i - 1) = last.arg.t /\ Knot(last.arg.i - 2) # last.arg.t

\* a parameter past the last knot belongs to no span
C23_WitnessOutside ==
    /\ CoxDegreeZero /\ ~InKnotRange /\ last.arg.ret = Num(0)
    /\ last.arg.i \in NonDegenerate /\ Owners = {}

(***************************************************************************)
(* Knot vectors of the revolved NURBS surface                              *)
(***************************************************************************)
\* NURBSSurface.from_bezier_revolve returned a surface made of an odd number
\* of samples, three at least
RevolvedNURBSBuilt ==
    /\ RevolvedNURBS /\ last.outcome = "ok"
    /\ SampleCount % 2 = 1 /\ SampleCount >= 3

\* how many times a value stands in a knot vector
Occurrences(knot_vector, value) ==
    Cardinality({k \in 1 .. Len(knot_vector) : knot_vector[k] = value})

\* C24: for N samples (N odd, N >= 3) knots_v of the revolved NURBS surface
\* has length N + 3, is non-decreasing, starts with three 0s and ends with
\* three 1s, and holds each interior breakpoint k / ((N - 1) / 2),
\* k = 1 .. (N - 3) / 2, exactly twice; knots_u is len(profile) zeros followed
\* by len(profile) ones.
C24_RevolveKnots ==
    RevolvedNURBSBuilt =>
        /\ Len(nurbs.knots_v) = SampleCount + 3
        /\ \A k \in 1 .. Len(nurbs.knots_v) - 1 :
              LessEq(nurbs.knots_v[k], nurbs.knots_v[k + 1])
        /\ \A k \in 1 .. 3 :
              /\ nurbs.knots_v[k] = Num(0)
              /\ nurbs.knots_v[Len(nurbs.knots_v) + 1 - k] = Num(1)
        /\ \A k \in 1 .. (SampleCount - 3) \div 2 :
              Occurrences(nurbs.knots_v, Frac(k, (SampleCount - 1) \div 2)) = 2
        /\ Occurrences(nurbs.knots_v, Num(0)) = 3
        /\ Occurrences(nurbs.knots_v, Num(1)) = 3
        /\ ZerosThenOnes(nurbs.knots_u, Cardinality(DOMAIN last.arg.bezier))

\* seven samples: the breakpoints 1/3 and 2/3, each twice, and a profile of
\* two points
C24_Witness ==
    /\ RevolvedNURBSBuilt /\ SampleCount = 7
    /\ nurbs.knots_v = <<Num(0), Num(0), Num(0), Frac(1, 3), Frac(1, 3),
                         Frac(2, 3), Frac(2, 3), Num(1), Num(1), Num(1)>>
    /\ nurbs.knots_u = <<Num(0), Num(0), Num(1), Num(1)>>

\* three samples: nothing is inserted
C24_WitnessNoInsert ==
    /\ RevolvedNURBSBuilt /\ SampleCount = 3
    /\ nurbs.knots_v = <<Num(0), Num(0), Num(0), Num(1), Num(1), Num(1)>>

(***************************************************************************)
(* The NURBS builder against the rational builder                          *)
(***************************************************************************)
\* the last call was NURBSSurface.from_bezier_revolve with two distinct angles
RevolvedNURBSDistinct == RevolvedNURBS /\ last.arg.start_angle # last.arg.end_angle

\* the samples RationalBezierSurface.from_bezier_revolve makes of the same
\* two angles
RationalSamples ==
    RationalAngleDistribution(last.arg.start_angle, last.arg.end_angle).angles

\* the NURBS builder made the samples of the rational builder, an odd count
\* of three at least, and its constructor call passed the knot-length
\* assertion
SameSamplesAndBuilt ==
    /\ last.outcome = "ok"
    /\ last.arg.angles = RationalSamples
    /\ SampleCount % 2 = 1 /\ SampleCount >= 3
    /\ IsSpecifiedCount(SampleCount)
    /\ nurbs # NoPatch /\ nurbs.Nv = SampleCount /\ KnotInvariant(nurbs)

\* C25: for every pair of distinct start and end angles, in either order,
\* NURBSSurface.from_bezier_revolve makes the sample count of the rational
\* builder (odd, >= 3, from the magnitude of the span) and then constructs a
\* surface that passes the knot-length assertion.
C25_SameAsRational == RevolvedNURBSDistinct => SameSamplesAndBuilt

\* the same, for an end angle greater than the start angle only
C25_SameAsRationalAscending ==
    RevolvedNURBSDistinct /\ Less(last.arg.start_angle, last.arg.end_angle)
        => SameSamplesAndBuilt

\* from 45 down to 0 degrees the NURBS builder makes one sample where the
\* rational builder makes three, and its constructor call fails the
\* knot-length assertion
C25_Witness ==
    /\ RevolvedNURBSDistinct /\ last.arg.start_angle = Num(45)
    /\ last.arg.end_angle = Num(0)
    /\ SampleCount = 1 /\ Cardinality(DOMAIN RationalSamples) = 3
    /\ last.outcome = "AssertionError" /\ nurbs = NoPatch

\* from 225 down to 0 degrees the sample count is negative and sampling
\* itself fails
C25_WitnessNegative ==
    /\ RevolvedNURBSDistinct /\ last.arg.start_angle = Num(225)
    /\ last.arg.end_angle = Num(0)
    /\ last.outcome = "ValueError" /\ Cardinality(DOMAIN RationalSamples) = 7

\* from 0 up to 225 degrees both builders make seven samples
C25_WitnessAscending ==
    /\ RevolvedNURBSDistinct /\ last.arg.start_angle = Num(0)
    /\ last.arg.end_angle = Num(225)
    /\ SameSamplesAndBuilt /\ SampleCount = 7

(***************************************************************************)
(* Weights the rational enforcement divides by                             *)
(***************************************************************************)
\* the last call was a rational G1 or G2 enforcement that completed
RationalEnforced ==
    /\ last.op \in G1Ops \cup G2Ops /\ last.outcome = "ok" /\ IsRational(PreB)

\* the depths at which the last call stored a weight and divided by it
DividedDepths == IF last.op \in G2Ops THEN {1, 2} ELSE {1}

IsPositive(x) == IsFinite(x) /\ x[1] > 0

\* C26: when rational enforce_g0g1 or enforce_g0g1g2 completes without
\* raising, the weight w_B,1 (and w_B,2 for G2) it stored in every row, by
\* which it divided to compute the point of that row, is > 0.
C26_DividedByPositive ==
    RationalEnforced =>
        \A r \in Rows(B, last.surface_edge) : \A c \in DividedDepths :
            IsPositive(wB(r, c))

\* what the code establishes: the stored weights are >= 0, and the point of a
\* row is finite when every weight stored in that row is > 0
C26_DividedByNonNegative ==
    RationalEnforced =>
        \A r \in Rows(B, last.surface_edge) :
            /\ \A c \in DividedDepths : IsFinite(wB(r, c)) /\ wB(r, c)[1] >= 0
            /\ (\A c \in DividedDepths : IsPositive(wB(r, c))) /\ IsFinite(pB(r, 0))
                  /\ (\A c \in {0} \cup DividedDepths : IsFinite(pA(r, c)))
                  => \A c \in DividedDepths : IsFinite(pB(r, c))

\* a completed rational enforce_g0g1 that stored a weight of zero in a row
\* and, dividing by it, a point that is not finite
C26_Witness ==
    /\ RationalEnforced /\ last.op = "enforce_g0g1"
    /\ \E r \in Rows(B, last.surface_edge) :
          /\ wB(r, 1) = Num(0) /\ ~IsFinite(pB(r, 1))
          /\ IsFinite(pPreB(r, 1)) /\ IsFinite(pB(r, 0))

(***************************************************************************)
(* The edge opposite to the enforced one                                   *)
(***************************************************************************)
\* the last call was a G1 or G2 enforcement that completed
HigherEnforced == last.op \in G1Ops \cup G2Ops /\ last.outcome = "ok"

OppositeEdge(surface_edge) ==
    CASE surface_edge = "North" -> "South"
      [] surface_edge = "South" -> "North"
      [] surface_edge = "East" -> "West"
      [] surface_edge = "West" -> "East"

\* the slots at continuity_index 0 of the edge opposite to the edge of the
\* last call
OppositeSlots ==
    {AddressedSlot(PreB, r, 0, OppositeEdge(last.surface_edge)) :
       r \in Rows(PreB, last.surface_edge)}

\* the slots of the deepest row the last call wrote
DeepestSlots ==
    {AddressedSlot(PreB, r, EnforcedDepth, last.surface_edge) :
       r \in Rows(PreB, last.surface_edge)}

\* C27: enforce_g0g1 (enforce_g0g1g2) on an edge of B, on every grid shape on
\* which the call completes, leaves the points and weights at
\* continuity_index 0 of the opposite edge of B unchanged.
C27_OppositeEdgeUnchanged ==
    HigherEnforced => \A ij \in OppositeSlots : SlotUnchanged(ij)

\* the same when the perpendicular degree of B is greater than the depth the
\* call writes (1 for G1, 2 for G2); when it is equal to that depth, the
\* opposite edge is the deepest row the call writes; it is never smaller
C27_OppositeEdgeUnchangedWhenDeeper ==
    HigherEnforced =>
        /\ PerpB >= EnforcedDepth
        /\ PerpB > EnforcedDepth => \A ij \in OppositeSlots : SlotUnchanged(ij)
        /\ PerpB = EnforcedDepth => OppositeSlots = DeepestSlots

\* enforce_g0g1g2 on a grid four points deep: the third row is changed, the
\* fourth, the opposite edge, is not
C27_Witness ==
    /\ HigherEnforced /\ last.op = "enforce_c0c1c2" /\ PerpB = 3
    /\ \A ij \in DeepestSlots : ~SlotUnchanged(ij)
    /\ \A ij \in OppositeSlots : SlotUnchanged(ij)
    /\ OppositeSlots \cap EnforcedSlots = {}

\* enforce_g0g1 on a grid two points deep: the opposite edge is the second
\* row, which the call writes
C27_WitnessTwoDeep ==
    /\ HigherEnforced /\ last.op \in G1Ops /\ PerpB = 1
    /\ \A ij \in OppositeSlots : ~SlotUnchanged(ij)

(***************************************************************************)
(* Two G0 calls on adjacent edges of one target                            *)
(***************************************************************************)
\* the record of the first of the two calls
First == last.arg.first

Adjacent(e1, e2) == e2 # e1 /\ e2 # OppositeEdge(e1)

\* B.enforce_g0(A, e1, eA) and then B.enforce_g0(C, e2, eC) have completed,
\* e1 and e2 adjacent
BothEnforced ==
    /\ nCalls = 2 /\ last.src = 3 /\ last.op \in G0Ops /\ last.outcome = "ok"
    /\ Adjacent(First.surface_edge, last.surface_edge)

\* row r of edge e1 of B holds the boundary of A: the G0 postcondition of the
\* first call
FirstG0Holds(r) ==
    /\ get_point(B, r, 0, First.surface_edge)
         = get_point(patch[1], r, 0, First.other_surface_edge)
    /\ IsRational(B) =>
         get_weight(B, r, 0, First.surface_edge)
           = get_weight(patch[1], r, 0, First.other_surface_edge)

\* the rows of e1 whose boundary slot is a boundary slot of e2 as well
SharedRows ==
    {r \in Rows(B, First.surface_edge) :
       \E q \in Rows(B, last.surface_edge) :
          AddressedSlot(B, r, 0, First.surface_edge)
            = AddressedSlot(B, q, 0, last.surface_edge)}

\* C28: after enforce_g0(A, e1, eA) and then enforce_g0(C, e2, eC) on one
\* target B, e1 and e2 adjacent, A and C arbitrary, the G0 postcondition of
\* the first call still holds for every row_index, the shared corner row
\* included.
C28_FirstG0Survives ==
    BothEnforced => \A r \in Rows(B, First.surface_edge) : FirstG0Holds(r)

\* the same for every row but the one of the shared corner; that row holds
\* the boundary of C, the postcondition of the second call
C28_FirstG0SurvivesOffCorner ==
    BothEnforced =>
        /\ Cardinality(SharedRows) = 1
        /\ \A r \in Rows(B, First.surface_edge) \ SharedRows : FirstG0Holds(r)
        /\ \A q \in Rows(B, last.surface_edge) :
              /\ pB(q, 0) = pA(q, 0)
              /\ IsRational(B) => wB(q, 0) = wA(q, 0)

\* South from A, then West from C, on rational surfaces: the corner [0][0]
\* of B holds the point and the weight of C, which are not those of A
C28_Witness ==
    /\ BothEnforced /\ IsRational(B)
    /\ First.surface_edge = "South" /\ last.surface_edge = "West"
    /\ SharedRows = {0} /\ B.Nu = 3
    /\ B.points[0][0] # get_point(patch[1], 0, 0, First.other_surface_edge)
    /\ B.weights[0][0] # get_weight(patch[1], 0, 0, First.other_surface_edge)
    /\ B.points[0][0] = pA(0, 0)
    /\ FirstG0Holds(1) /\ FirstG0Holds(2)

\* North from A, then East from C: the shared corner is the last row of the
\* first edge
C28_WitnessLastRow ==
    /\ BothEnforced /\ First.surface_edge = "North" /\ last.surface_edge = "East"
    /\ SharedRows = {B.Nu - 1} /\ ~FirstG0Holds(B.Nu - 1) /\ FirstG0Holds(0)

(***************************************************************************)
(* Second derivatives of a rational surface with unit weights              *)
(***************************************************************************)
\* the degree in the direction of the derivative of the last call
DerivativeDegree ==
    IF last.op = "compute_second_derivative_u" THEN degree_u(PreS) ELSE degree_v(PreS)

\* the last call was compute_second_derivative_u or _v on a surface whose
\* weights are all 1, of degree 2 at least in the direction of the derivative
UnitSecondDerivative ==
    /\ last.op \in {"compute_second_derivative_u", "compute_second_derivative_v"}
    /\ IsRational(PreS) /\ AllWeightsOne(PreS)
    /\ DerivativeDegree >= 2

\* what BezierSurface.d2Sdu2 (d2Sdv2) returns on the control net of the
\* surface of the last call, at the parameters of the last call
BezierSecondDerivative ==
    IF last.op = "compute_second_derivative_u"
    THEN d2Sdu2(BezierSurface(PreS.points), last.arg.u, last.arg.v)
    ELSE d2Sdv2(BezierSurface(PreS.points), last.arg.u, last.arg.v)

\* the second difference of the first three control points from the corner
\* [0][0] in the direction of the derivative
CornerSecondDifference ==
    IF last.op = "compute_second_derivative_u"
    THEN SecondDifference(PreS.points[0][0], PreS.points[1][0], PreS.points[2][0])
    ELSE SecondDifference(PreS.points[0][0], PreS.points[0][1], PreS.points[0][2])

\* C29: on a rational surface whose weights are all 1,
\* compute_second_derivative_u and _v return what d2Sdu2 and d2Sdv2 of the
\* Bezier surface of the same control net return, for every degree >= 2; at
\* the corner parameters this is degree * (degree - 1) times the second
\* difference of the first three control points.
C29_UnitSecondDerivatives ==
    UnitSecondDerivative =>
        /\ last.arg.ret = BezierSecondDerivative
        /\ last.arg.u = Num(0) /\ last.arg.v = Num(0) =>
              last.arg.ret = Mul(Num(DerivativeDegree * (DerivativeDegree - 1)),
                                 CornerSecondDifference)

\* what the code returns: the value of the Bezier surface divided by
\* degree * (degree - 1); at the corner the second difference itself
C29_UnitSecondDerivativesUnscaled ==
    UnitSecondDerivative =>
        /\ Mul(Num(DerivativeDegree * (DerivativeDegree - 1)), last.arg.ret)
             = BezierSecondDerivative
        /\ last.arg.u = Num(0) /\ last.arg.v = Num(0) =>
              /\ last.arg.ret = CornerSecondDifference
              /\ BezierSecondDerivative
                   = Mul(Num(DerivativeDegree * (DerivativeDegree - 1)),
                         CornerSecondDifference)

\* degree 3 in u, at u = 1/2: the Bezier surface gives six times the value
\* returned, which is not zero
C29_Witness ==
    /\ UnitSecondDerivative /\ last.op = "compute_second_derivative_u"
    /\ DerivativeDegree = 3 /\ last.arg.u = Frac(1, 2)
    /\ IsFinite(last.arg.ret) /\ last.arg.ret # Num(0)
    /\ BezierSecondDerivative = Mul(Num(6), last.arg.ret)

\* degree 2 in v, at the corner (0, 0): the second difference is returned,
\* the Bezier surface gives twice that
C29_WitnessCorner ==
    /\ UnitSecondDerivative /\ last.op = "compute_second_derivative_v"
    /\ DerivativeDegree = 2 /\ last.arg.u = Num(0) /\ last.arg.v = Num(0)
    /\ last.arg.ret = CornerSecondDifference /\ last.arg.ret # Num(0)
    /\ BezierSecondDerivative = Mul(Num(2), last.arg.ret)

(***************************************************************************)
(* IGES pointers                                                           *)
(***************************************************************************)
\* the generator after and before the last call
Gen == patch[1]
PreGen == last.pre[1]

AssignOps == {"_assign_integer_values_to_pointers", "generate"}

\* the values of the listed entities of generator g that refer to entities:
\* <<id, k>> for parameter k of dtype pointer of entity id, <<id, 0>> for its
\* transformation matrix when not 0
PointerPlaces(g) ==
    {<<g.entities[pos], k>> : pos \in 1 .. Len(g.entities), k \in 0 .. 1}
      \cap ({<<id, k>> \in EntityIds \X {1} :
                /\ k <= Len(g.objects[id].parameter_data)
                /\ g.objects[id].parameter_data[k].dtype = "pointer"
                /\ g.objects[id].parameter_data[k].value.ent}
             \cup {<<id, k>> \in EntityIds \X {0} :
                     g.objects[id].transformation_matrix # IntValue(0)})

ValueAt(g, place) ==
    IF place[2] = 0 THEN g.objects[place[1]].transformation_matrix
    ELSE g.objects[place[1]].parameter_data[place[2]].value

\* every reference of generator g is to an entity of its list
ReferencesListed(g) ==
    \A place \in PointerPlaces(g) : EntitiesIndex(g.entities, ValueAt(g, place)) >= 0

\* the first invocation, on a generator whose references are all listed
FirstAssigned ==
    /\ last.op \in AssignOps /\ nCalls = 1 /\ PreGen.kind = "generator"
    /\ ReferencesListed(PreGen)

\* the invocation that follows a completed first one
SecondAssigned ==
    /\ last.op \in AssignOps /\ nCalls = 2 /\ PreGen.kind = "generator"

\* the first invocation completed and put 1 + 2 * index in every place
NumbersAssigned ==
    /\ last.outcome = "ok"
    /\ \A place \in PointerPlaces(PreGen) :
          ValueAt(Gen, place)
            = IntValue(1 + 2 * EntitiesIndex(PreGen.entities, ValueAt(PreGen, place)))
    /\ \A id \in EntityIds, k \in 0 .. 1 :
          (<<id, k>> \notin PointerPlaces(PreGen)
             /\ k <= Len(PreGen.objects[id].parameter_data))
            => ValueAt(Gen, <<id, k>>) = ValueAt(PreGen, <<id, k>>)

\* some listed entity has a transformation matrix that is not 0
HasMatrix(g) == \E place \in PointerPlaces(g) : place[2] = 0

\* C30: _assign_integer_values_to_pointers puts the odd integer
\* 1 + 2 * (index of the entity referred to in the entity list) in place of
\* every entity-valued pointer parameter and of every transformation matrix
\* that is not 0; invoked again on the same generator (generate called twice)
\* it completes without error and leaves those values as they are.
C30_PointersAssignedOnce ==
    /\ FirstAssigned => NumbersAssigned
    /\ SecondAssigned => last.outcome = "ok" /\ Gen = PreGen

\* the same, the second invocation completing only when no listed entity has
\* a transformation matrix; it raises ValueError otherwise, and changes
\* nothing either way
C30_PointersAssignedOnceNoMatrix ==
    /\ FirstAssigned => NumbersAssigned
    /\ SecondAssigned =>
          /\ Gen = PreGen
          /\ last.outcome = IF HasMatrix(PreGen) THEN "ValueError" ELSE "ok"

\* generate called twice on two entities, the first with a pointer to the
\* second and the second as its transformation matrix: the first call made
\* both 3, the second call raised ValueError
C30_Witness ==
    /\ SecondAssigned /\ last.op = "generate" /\ last.outcome = "ValueError"
    /\ Len(Gen.entities) = 2
    /\ ValueAt(Gen, <<Gen.entities[1], 0>>) = IntValue(3)
    /\ Len(Gen.objects[Gen.entities[1]].parameter_data) = 1
    /\ Gen.objects[Gen.entities[1]].parameter_data[1]
         = [dtype |-> "pointer", value |-> IntValue(3)]

\* a second invocation on entities without transformation matrix: pointers
\* assigned by the first are kept
C30_WitnessKept ==
    /\ SecondAssigned /\ last.outcome = "ok" /\ Len(Gen.entities) = 2
    /\ \E id \in EntityIds :
          /\ Len(Gen.objects[id].parameter_data) = 1
          /\ Gen.objects[id].parameter_data[1] = [dtype |-> "pointer", value |-> IntValue(3)]

\* a first invocation that replaced a pointer and a transformation matrix
C30_WitnessFirst ==
    /\ FirstAssigned /\ last.outcome = "ok" /\ Gen # PreGen
    /\ Cardinality(PointerPlaces(PreGen)) >= 3
    /\ \E place \in PointerPlaces(PreGen) : ValueAt(Gen, place) = IntValue(1)
    /\ \E place \in PointerPlaces(PreGen) : ValueAt(Gen, place) = IntValue(3)

====
